---- MODULE Spec2Model ----
(***************************************************************************)
(* A model of the dual-number library "dual": the value types Real, Super, *)
(* Complex (flat and pair-based), Quaternion, Hamilton, Perplex and Ultra, *)
(* their predicates (Equals, IsInf, IsNaN, IsZeroDiv) and their division   *)
(* (Inv, Quo).                                                             *)
(*                                                                         *)
(* A float64 is modelled as a triple <<n, d, k>>:                          *)
(*   d > 0 : the finite number (n / d) * DeltaInv^k, computed exactly;     *)
(*   <<1,0,0>> is +Inf, <<-1,0,0>> is -Inf and <<0,0,0>> is NaN.           *)
(* The exponent k lets the model hold numbers at the scale of the          *)
(* tolerance delta = 1/DeltaInv next to numbers of ordinary size.          *)
(* Arithmetic on finite numbers is exact (rounding is not modelled);       *)
(* arithmetic on infinities and NaN follows IEEE-754.                      *)
(***************************************************************************)
EXTENDS Integers, Sequences, FiniteSets, TLC

\* 1/delta: delta = 0.00000001 is the tolerance of notEquals
DeltaInv == 100000000

\* largest absolute value of an integer component drawn as an input
MaxNum == 2

\* largest number of calls in a sequence of calls on Hamilton or Ultra values
MaxCalls == 2

----------------------------------------------------------------------------
(* float64 values and their arithmetic *)

Sgn(n) == IF n > 0 THEN 1 ELSE IF n < 0 THEN -1 ELSE 0

Abs(n) == IF n < 0 THEN -n ELSE n

RECURSIVE Gcd(_, _)
Gcd(a, b) == IF b = 0 THEN a ELSE Gcd(b, a % b)

NaN == <<0, 0, 0>>

PInf == <<1, 0, 0>>

NInf == <<-1, 0, 0>>

\* math.Inf(sign): +Inf when sign >= 0, -Inf otherwise
Inf(sign) == IF sign >= 0 THEN PInf ELSE NInf

\* math.IsNaN
IsNaNF(a) == a[2] = 0 /\ a[1] = 0

\* math.IsInf(a, 0)
IsInfF(a) == a[2] = 0 /\ a[1] # 0

IsFinF(a) == a[2] > 0

\* the finite number (n/d) * DeltaInv^k in normal form: lowest terms, with
\* the powers of DeltaInv moved from n and d into k
RECURSIVE Norm(_, _, _)
Norm(n, d, k) ==
    IF n = 0 THEN <<0, 1, 0>>
    ELSE IF n % DeltaInv = 0 THEN Norm(n \div DeltaInv, d, k + 1)
    ELSE IF d % DeltaInv = 0 THEN Norm(n, d \div DeltaInv, k - 1)
    ELSE LET g == Gcd(Abs(n), d) IN <<n \div g, d \div g, k>>

\* a float64 literal: the integer n, and the fraction n/d
I(n) == Norm(n, 1, 0)

Q(n, d) == Norm(n, d, 0)

Zero == I(0)

One == I(1)

\* the constant delta
Delta == Norm(1, DeltaInv, 0)

\* DeltaInv^e for e in 0..2 (larger powers do not fit the model's integers)
Pow(e) == IF e = 0 THEN 1 ELSE IF e = 1 THEN DeltaInv ELSE DeltaInv * DeltaInv

\* unary minus
FNeg(a) == <<-a[1], a[2], a[3]>>

\* a * b
FMul(a, b) ==
    IF IsFinF(a) /\ IsFinF(b) THEN
        IF a[1] = 0 \/ b[1] = 0 THEN <<0, 1, 0>>
        ELSE LET g == Gcd(Abs(a[1]), b[2])
                 h == Gcd(Abs(b[1]), a[2])
             IN Norm((a[1] \div g) * (b[1] \div h),
                     (a[2] \div h) * (b[2] \div g), a[3] + b[3])
    ELSE IF IsNaNF(a) \/ IsNaNF(b) THEN NaN
    ELSE IF a[1] = 0 \/ b[1] = 0 THEN NaN
    ELSE Inf(Sgn(a[1]) * Sgn(b[1]))

\* a + b
FAdd(a, b) ==
    IF IsFinF(a) /\ IsFinF(b) THEN
        IF a[1] = 0 THEN b
        ELSE IF b[1] = 0 THEN a
        ELSE LET k == IF a[3] < b[3] THEN a[3] ELSE b[3]
                 g == Gcd(a[2], b[2])
             IN Norm(a[1] * (b[2] \div g) * Pow(a[3] - k)
                       + b[1] * (a[2] \div g) * Pow(b[3] - k),
                     a[2] * (b[2] \div g), k)
    ELSE IF IsNaNF(a) \/ IsNaNF(b) THEN NaN
    ELSE IF IsInfF(a) /\ IsInfF(b) THEN (IF a = b THEN a ELSE NaN)
    ELSE IF IsInfF(a) THEN a
    ELSE b

\* a - b
FSub(a, b) == FAdd(a, FNeg(b))

\* a / b (a float64 division never panics: x/0 is an infinity or NaN)
FDiv(a, b) ==
    IF IsNaNF(a) \/ IsNaNF(b) THEN NaN
    ELSE IF IsInfF(a) THEN (IF IsInfF(b) THEN NaN
                            ELSE Inf(Sgn(a[1]) * (IF b[1] < 0 THEN -1 ELSE 1)))
    ELSE IF IsInfF(b) THEN Zero
    ELSE IF b[1] = 0 THEN (IF a[1] = 0 THEN NaN ELSE Inf(Sgn(a[1])))
    ELSE Norm(a[1] * b[2] * Sgn(b[1]), a[2] * Abs(b[1]), a[3] - b[3])

\* floor(m / DeltaInv^e) for m >= 0, e >= 0, without forming DeltaInv^e
DivPow(m, e) == IF e = 0 THEN m ELSE IF e = 1 THEN m \div DeltaInv ELSE 0

\* a > b for finite a > 0 and b > 0
PosGt(a, b) ==
    LET l == a[1] * b[2]
        r == b[1] * a[2]
        e == a[3] - b[3]
    IN IF e >= 0 THEN l > DivPow(r, e) ELSE DivPow(l - 1, -e) >= r

\* the comparison a > b of two float64 values (false when either is NaN)
FGt(a, b) ==
    IF IsNaNF(a) \/ IsNaNF(b) THEN FALSE
    ELSE IF IsInfF(a) THEN a = PInf /\ b # PInf
    ELSE IF IsInfF(b) THEN b = NInf
    ELSE IF Sgn(a[1]) # Sgn(b[1]) THEN Sgn(a[1]) > Sgn(b[1])
    ELSE IF a[1] = 0 THEN FALSE
    ELSE IF a[1] > 0 THEN PosGt(a, b)
    ELSE PosGt(FNeg(b), FNeg(a))

\* the comparison a # b of two float64 values (true when either is NaN)
FNe(a, b) == IsNaNF(a) \/ IsNaNF(b) \/ FGt(a, b) \/ FGt(b, a)

\* the absolute value of a float64
FAbs(a) == <<Abs(a[1]), a[2], a[3]>>

\* the comparison a >= b of two float64 values (false when either is NaN)
FGe(a, b) == ~IsNaNF(a) /\ ~IsNaNF(b) /\ ~FGt(b, a)

----------------------------------------------------------------------------
(* complex128 values <<re, im>> and the operators Go defines on them *)

CMul(a, b) ==
    <<FSub(FMul(a[1], b[1]), FMul(a[2], b[2])),
      FAdd(FMul(a[1], b[2]), FMul(a[2], b[1]))>>

CAdd(a, b) == <<FAdd(a[1], b[1]), FAdd(a[2], b[2])>>

CNegC(a) == <<FNeg(a[1]), FNeg(a[2])>>

\* n / m: Smith's algorithm, and Go's result for a zero divisor m
CDivNaN(n, m) ==
    IF m[1] = Zero /\ m[2] = Zero /\ (~IsNaNF(n[1]) \/ ~IsNaNF(n[2]))
    THEN <<FMul(PInf, n[1]), FMul(PInf, n[2])>>
    ELSE <<NaN, NaN>>

CDiv(n, m) ==
    LET big   == FGe(FAbs(m[1]), FAbs(m[2]))
        ratio == IF big THEN FDiv(m[2], m[1]) ELSE FDiv(m[1], m[2])
        denom == IF big THEN FAdd(m[1], FMul(ratio, m[2]))
                        ELSE FAdd(m[2], FMul(ratio, m[1]))
        e     == IF big THEN FDiv(FAdd(n[1], FMul(n[2], ratio)), denom)
                        ELSE FDiv(FAdd(FMul(n[1], ratio), n[2]), denom)
        f     == IF big THEN FDiv(FSub(n[2], FMul(n[1], ratio)), denom)
                        ELSE FDiv(FSub(FMul(n[2], ratio), n[1]), denom)
    IN IF IsNaNF(e) /\ IsNaNF(f) THEN CDivNaN(n, m) ELSE <<e, f>>

COne == <<One, Zero>>

----------------------------------------------------------------------------
(* doc.go *)

\* notEquals with only one of its two comparisons
notEqualsOneSided(a, b) == FGt(FSub(a, b), Delta)

\* notEquals(a, b): a and b differ by more than delta
notEquals(a, b) == FGt(FSub(a, b), Delta) \/ FGt(FSub(b, a), Delta)

\* the value a division leaves when it panics
Panic == <<>>

----------------------------------------------------------------------------
(* real.go: Real is [2]float64, <<real, dual>> *)

RealEquals(z, y) ==
    IF notEquals(z[1], y[1]) \/ notEquals(z[2], y[2]) THEN FALSE ELSE TRUE

RealIsInf(z) == IF IsInfF(z[1]) \/ IsInfF(z[2]) THEN TRUE ELSE FALSE

RealIsNaN(z) ==
    IF IsInfF(z[1]) \/ IsInfF(z[2]) THEN FALSE
    ELSE IF IsNaNF(z[1]) \/ IsNaNF(z[2]) THEN TRUE
    ELSE FALSE

RealScal(y, a) == <<FMul(y[1], a), FMul(y[2], a)>>

RealConj(y) == <<y[1], FMul(y[2], I(-1))>>

\* Mul that takes the dual part of q where the real part is meant
RealMulWrongIndex(x, y) ==
    <<FMul(x[1], y[1]), FAdd(FMul(x[1], y[2]), FMul(x[2], y[2]))>>

RealMul(x, y) ==
    <<FMul(x[1], y[1]), FAdd(FMul(x[1], y[2]), FMul(x[2], y[1]))>>

\* Quad that multiplies the real part by the dual part
RealQuadWrongIndex(z) == FMul(z[1], z[2])

RealQuad(z) == FMul(z[1], z[1])

\* IsZeroDiv testing the dual part instead of the real part
RealIsZeroDivDual(z) == ~notEquals(z[2], Zero)

RealIsZeroDiv(z) == ~notEquals(z[1], Zero)

\* Inv without the zero-divisor check
RealInvUnchecked(y) == RealScal(RealConj(y), FDiv(One, RealQuad(y)))

RealInv(y) ==
    IF RealIsZeroDiv(y) THEN Panic
    ELSE RealScal(RealConj(y), FDiv(One, RealQuad(y)))

RealQuo(x, y) ==
    IF RealIsZeroDiv(y) THEN Panic
    ELSE RealScal(RealMul(x, RealConj(y)), FDiv(One, RealQuad(y)))

----------------------------------------------------------------------------
(* super.go: Super is [4]float64, <<1, sigma, tau, sigma tau>> *)

SuperEquals(z, y) == \A i \in 1..4 : ~notEquals(z[i], y[i])

SuperIsInf(z) == \E i \in 1..4 : IsInfF(z[i])

SuperIsNaN(z) ==
    IF \E i \in 1..4 : IsInfF(z[i]) THEN FALSE
    ELSE IF \E i \in 1..4 : IsNaNF(z[i]) THEN TRUE
    ELSE FALSE

SuperScal(y, a) == [i \in 1..4 |-> FMul(a, y[i])]

SuperDualConj(y) == <<y[1], FNeg(y[2]), FNeg(y[3]), FNeg(y[4])>>

SuperMul(x, y) ==
    <<FMul(x[1], y[1]),
      FAdd(FMul(x[1], y[2]), FMul(x[2], y[1])),
      FAdd(FMul(x[1], y[3]), FMul(x[3], y[1])),
      FAdd(FSub(FAdd(FMul(x[1], y[4]), FMul(x[2], y[3])), FMul(x[3], y[2])),
           FMul(x[4], y[1]))>>

SuperDualQuad(z) == FMul(z[1], z[1])

SuperIsZeroDiv(z) == ~notEquals(z[1], Zero)

SuperInv(y) ==
    IF SuperIsZeroDiv(y) THEN Panic
    ELSE SuperScal(SuperDualConj(y), FDiv(One, SuperDualQuad(y)))

\* Quo multiplying by the conjugate of y on the left instead of the right
SuperQuoLeft(x, y) ==
    IF SuperIsZeroDiv(y) THEN Panic
    ELSE SuperScal(SuperMul(SuperDualConj(y), x), FDiv(One, SuperDualQuad(y)))

SuperQuo(x, y) ==
    IF SuperIsZeroDiv(y) THEN Panic
    ELSE SuperScal(SuperMul(x, SuperDualConj(y)), FDiv(One, SuperDualQuad(y)))

----------------------------------------------------------------------------
(* complex.go: Complex is [4]float64, <<1, i, eps, eps i>> *)

ComplexEquals(z, y) == \A i \in 1..4 : ~notEquals(z[i], y[i])

ComplexIsComplexInf(z) == \E i \in 1..4 : IsInfF(z[i])

ComplexIsComplexNaN(z) ==
    IF \E i \in 1..4 : IsInfF(z[i]) THEN FALSE
    ELSE IF \E i \in 1..4 : IsNaNF(z[i]) THEN TRUE
    ELSE FALSE

ComplexScalC(y, c) ==
    <<FSub(FMul(y[1], c[1]), FMul(y[2], c[2])),
      FAdd(FMul(y[1], c[2]), FMul(y[2], c[1])),
      FSub(FMul(y[3], c[1]), FMul(y[4], c[2])),
      FAdd(FMul(y[3], c[2]), FMul(y[4], c[1]))>>

ComplexDConj(y) == <<y[1], y[2], FNeg(y[3]), FNeg(y[4])>>

\* Mul with the sign of Super's anticommuting product in the last component
ComplexMulAntiSign(x, y) ==
    <<FSub(FMul(x[1], y[1]), FMul(x[2], y[2])),
      FAdd(FMul(x[1], y[2]), FMul(x[2], y[1])),
      FSub(FAdd(FSub(FMul(x[1], y[3]), FMul(x[2], y[4])), FMul(x[3], y[1])),
           FMul(x[4], y[2])),
      FAdd(FSub(FAdd(FMul(x[1], y[4]), FMul(x[2], y[3])), FMul(x[3], y[2])),
           FMul(x[4], y[1]))>>

ComplexMul(x, y) ==
    <<FSub(FMul(x[1], y[1]), FMul(x[2], y[2])),
      FAdd(FMul(x[1], y[2]), FMul(x[2], y[1])),
      FSub(FAdd(FSub(FMul(x[1], y[3]), FMul(x[2], y[4])), FMul(x[3], y[1])),
           FMul(x[4], y[2])),
      FAdd(FAdd(FAdd(FMul(x[1], y[4]), FMul(x[2], y[3])), FMul(x[3], y[2])),
           FMul(x[4], y[1]))>>

ComplexDQuad(z) ==
    LET p == ComplexMul(z, ComplexDConj(z)) IN <<p[1], p[2]>>

ComplexIsZeroDiv(z) == ~notEquals(z[1], Zero) /\ ~notEquals(z[2], Zero)

\* Inv scaling y itself instead of its dual conjugate
ComplexInvNoConj(y) ==
    IF ComplexIsZeroDiv(y) THEN Panic
    ELSE ComplexScalC(y, CDiv(COne, ComplexDQuad(y)))

ComplexInv(y) ==
    IF ComplexIsZeroDiv(y) THEN Panic
    ELSE ComplexScalC(ComplexDConj(y), CDiv(COne, ComplexDQuad(y)))

ComplexQuo(x, y) ==
    IF ComplexIsZeroDiv(y) THEN Panic
    ELSE ComplexScalC(ComplexMul(x, ComplexDConj(y)),
                      CDiv(COne, ComplexDQuad(y)))

----------------------------------------------------------------------------
(* the pair-based Complex: [2]complex128, <<real, dual>> *)

PairComplexEquals(z, y) ==
    \A i \in 1..2 : ~notEquals(z[i][1], y[i][1]) /\ ~notEquals(z[i][2], y[i][2])

\* cmplx.IsInf: the real or the imaginary part is an infinity
CmplxIsInf(c) == IsInfF(c[1]) \/ IsInfF(c[2])

\* cmplx.IsNaN: a part is NaN and neither is an infinity
CmplxIsNaN(c) ==
    IF IsInfF(c[1]) \/ IsInfF(c[2]) THEN FALSE
    ELSE IsNaNF(c[1]) \/ IsNaNF(c[2])

PairComplexIsComplexInf(z) ==
    IF CmplxIsInf(z[1]) \/ CmplxIsInf(z[2]) THEN TRUE ELSE FALSE

PairComplexIsComplexNaN(z) ==
    IF CmplxIsInf(z[1]) \/ CmplxIsInf(z[2]) THEN FALSE
    ELSE IF CmplxIsNaN(z[1]) \/ CmplxIsNaN(z[2]) THEN TRUE
    ELSE FALSE

PairComplexScal(y, a) == <<CMul(y[1], a), CMul(y[2], a)>>

PairComplexDualConj(y) == <<y[1], CNegC(y[2])>>

PairComplexMul(x, y) ==
    <<CMul(x[1], y[1]), CAdd(CMul(x[1], y[2]), CMul(x[2], y[1]))>>

PairComplexDualQuad(z) == PairComplexMul(z, PairComplexDualConj(z))[1]

PairComplexIsZeroDiv(z) == FNe(z[1][1], Zero) \/ FNe(z[1][2], Zero)

PairComplexInv(y) ==
    IF PairComplexIsZeroDiv(y) THEN Panic
    ELSE PairComplexScal(PairComplexDualConj(y),
                         CDiv(COne, PairComplexDualQuad(y)))

PairComplexQuo(x, y) ==
    IF PairComplexIsZeroDiv(y) THEN Panic
    ELSE PairComplexScal(PairComplexMul(x, PairComplexDualConj(y)),
                         CDiv(COne, PairComplexDualQuad(y)))

----------------------------------------------------------------------------
(* package qtr: a qtr.Hamilton is a quaternion [4]float64, <<1, i, j, k>> *)

QtrEquals(z, y) == \A i \in 1..4 : ~notEquals(z[i], y[i])

QtrIsHamiltonInf(z) == \E i \in 1..4 : IsInfF(z[i])

QtrIsHamiltonNaN(z) ==
    (~ \E i \in 1..4 : IsInfF(z[i])) /\ (\E i \in 1..4 : IsNaNF(z[i]))

QtrConj(y) == <<y[1], FNeg(y[2]), FNeg(y[3]), FNeg(y[4])>>

QtrQuad(z) ==
    FAdd(FAdd(FAdd(FMul(z[1], z[1]), FMul(z[2], z[2])), FMul(z[3], z[3])),
         FMul(z[4], z[4]))

\* the inverse of a quaternion: its conjugate over its quadrance; it panics
\* on the zero quaternion
QtrInv(y) ==
    IF QtrEquals(y, <<Zero, Zero, Zero, Zero>>) THEN Panic
    ELSE [i \in 1..4 |-> FDiv(QtrConj(y)[i], QtrQuad(y))]

----------------------------------------------------------------------------
(* the flat dual quaternion: Quaternion is [8]float64,                     *)
(* <<1, i, j, k, eps, eps i, eps j, eps k>>                                *)

QuaternionEquals(z, y) == \A i \in 1..8 : ~notEquals(z[i], y[i])

QuaternionIsQuaternionInf(z) == \E i \in 1..8 : IsInfF(z[i])

QuaternionIsQuaternionNaN(z) ==
    IF \E i \in 1..8 : IsInfF(z[i]) THEN FALSE
    ELSE IF \E i \in 1..8 : IsNaNF(z[i]) THEN TRUE
    ELSE FALSE

QuaternionScalH(y, h) == [i \in 1..8 |-> FMul(y[i], h[1])]

QuaternionDConj(y) ==
    <<y[1], y[2], y[3], y[4], FNeg(y[5]), FNeg(y[6]), FNeg(y[7]), FNeg(y[8])>>

\* the sum of four and of eight signed products, added left to right
Sum4(a, b, c, d) == FAdd(FAdd(FAdd(a, b), c), d)

Sum8(a, b, c, d, e, f, g, h) == FAdd(FAdd(FAdd(FAdd(Sum4(a, b, c, d), e), f), g), h)

QuaternionMul(p, q) ==
    <<Sum4(FMul(p[1], q[1]), FNeg(FMul(p[2], q[2])), FNeg(FMul(p[3], q[3])),
           FNeg(FMul(p[4], q[4]))),
      Sum4(FMul(p[1], q[2]), FMul(p[2], q[1]), FMul(p[3], q[4]),
           FNeg(FMul(p[4], q[3]))),
      Sum4(FMul(p[1], q[3]), FNeg(FMul(p[2], q[4])), FMul(p[3], q[1]),
           FMul(p[4], q[2])),
      Sum4(FMul(p[1], q[4]), FMul(p[2], q[3]), FNeg(FMul(p[3], q[2])),
           FMul(p[4], q[1])),
      Sum8(FMul(p[1], q[5]), FNeg(FMul(p[2], q[6])), FNeg(FMul(p[3], q[7])),
           FNeg(FMul(p[4], q[8])), FMul(p[5], q[1]), FNeg(FMul(p[6], q[2])),
           FNeg(FMul(p[7], q[3])), FNeg(FMul(p[8], q[4]))),
      Sum8(FMul(p[1], q[6]), FMul(p[2], q[5]), FMul(p[3], q[8]),
           FNeg(FMul(p[4], q[7])), FMul(p[5], q[2]), FMul(p[6], q[1]),
           FMul(p[7], q[4]), FNeg(FMul(p[8], q[3]))),
      Sum8(FMul(p[1], q[7]), FNeg(FMul(p[2], q[8])), FMul(p[3], q[5]),
           FMul(p[4], q[6]), FMul(p[5], q[3]), FNeg(FMul(p[6], q[4])),
           FMul(p[7], q[1]), FMul(p[8], q[2])),
      Sum8(FMul(p[1], q[8]), FMul(p[2], q[7]), FNeg(FMul(p[3], q[6])),
           FMul(p[4], q[5]), FMul(p[5], q[4]), FMul(p[6], q[3]),
           FNeg(FMul(p[7], q[2])), FMul(p[8], q[1]))>>

QuaternionDQuad(z) ==
    LET p == QuaternionMul(z, QuaternionDConj(z)) IN <<p[1], p[2], p[3], p[4]>>

QuaternionIsZeroDiv(z) == ~notEquals(z[1], Zero) /\ ~notEquals(z[2], Zero)

QuaternionInv(y) ==
    IF QuaternionIsZeroDiv(y) THEN Panic
    ELSE LET h == QtrInv(QuaternionDQuad(y))
         IN IF h = Panic THEN Panic
            ELSE QuaternionScalH(QuaternionDConj(y), h)

QuaternionQuo(x, y) ==
    IF QuaternionIsZeroDiv(y) THEN Panic
    ELSE LET h == QtrInv(QuaternionDQuad(y))
         IN IF h = Panic THEN Panic
            ELSE QuaternionScalH(QuaternionMul(x, QuaternionDConj(y)), h)

----------------------------------------------------------------------------
(* hamilton.go: Hamilton is [2]*qtr.Hamilton, <<real, dual>> *)

HamiltonEquals(z, y) ==
    IF ~QtrEquals(z[1], y[1]) \/ ~QtrEquals(z[2], y[2]) THEN FALSE ELSE TRUE

HamiltonIsHamiltonInf(z) ==
    IF QtrIsHamiltonInf(z[1]) \/ QtrIsHamiltonInf(z[2]) THEN TRUE ELSE FALSE

HamiltonIsHamiltonNaN(z) ==
    IF QtrIsHamiltonInf(z[1]) \/ QtrIsHamiltonInf(z[2]) THEN FALSE
    ELSE IF QtrIsHamiltonNaN(z[1]) \/ QtrIsHamiltonNaN(z[2]) THEN TRUE
    ELSE FALSE

HamiltonIsZeroDiv(z) == ~QtrEquals(z[1], <<Zero, Zero, Zero, Zero>>)

----------------------------------------------------------------------------
(* package split: a split.Complex is [2]float64, <<1, s>> *)

SplitEquals(z, y) == \A i \in 1..2 : ~notEquals(z[i], y[i])

SplitIsInf(z) == \E i \in 1..2 : IsInfF(z[i])

SplitIsNaN(z) ==
    (~ \E i \in 1..2 : IsInfF(z[i])) /\ (\E i \in 1..2 : IsNaNF(z[i]))

----------------------------------------------------------------------------
(* perplex.go: Perplex is [2]*split.Complex, <<real, dual>> *)

PerplexEquals(z, y) ==
    IF ~SplitEquals(z[1], y[1]) THEN FALSE
    ELSE IF ~SplitEquals(z[2], y[2]) THEN FALSE
    ELSE TRUE

PerplexIsPerplexInf(z) ==
    IF SplitIsInf(z[1]) \/ SplitIsInf(z[2]) THEN TRUE ELSE FALSE

PerplexIsPerplexNaN(z) ==
    IF SplitIsInf(z[1]) \/ SplitIsInf(z[2]) THEN FALSE
    ELSE IF SplitIsNaN(z[1]) \/ SplitIsNaN(z[2]) THEN TRUE
    ELSE FALSE

PerplexIsZeroDiv(z) == ~SplitEquals(z[1], <<Zero, Zero>>)

----------------------------------------------------------------------------
(* ultra.go: Ultra is [2]*Super, <<real, dual>> *)

UltraEquals(z, y) ==
    IF ~SuperEquals(z[1], y[1]) \/ ~SuperEquals(z[2], y[2]) THEN FALSE
    ELSE TRUE

UltraIsInf(z) == IF SuperIsInf(z[1]) \/ SuperIsInf(z[2]) THEN TRUE ELSE FALSE

\* IsNaN without the test that no component of either part is infinite
UltraIsNaNNoInfTest(z) ==
    IF SuperIsNaN(z[1]) \/ SuperIsNaN(z[2]) THEN TRUE ELSE FALSE

UltraIsNaN(z) ==
    IF SuperIsInf(z[1]) \/ SuperIsInf(z[2]) THEN FALSE
    ELSE IF SuperIsNaN(z[1]) \/ SuperIsNaN(z[2]) THEN TRUE
    ELSE FALSE

----------------------------------------------------------------------------
(* conjugation, addition and quadrance of the flat types *)

\* Add with the dual parts subtracted
RealAddSubDual(x, y) == <<FAdd(x[1], y[1]), FSub(x[2], y[2])>>

RealAdd(x, y) == <<FAdd(x[1], y[1]), FAdd(x[2], y[2])>>

SuperAdd(x, y) == [i \in 1..4 |-> FAdd(x[i], y[i])]

\* Conj that takes the eps i component of the result from the i component
ComplexConjWrongIndex(y) == <<y[1], FNeg(y[2]), y[3], FNeg(y[2])>>

ComplexConj(y) == <<y[1], FNeg(y[2]), y[3], FNeg(y[4])>>

ComplexAdd(x, y) == [i \in 1..4 |-> FAdd(x[i], y[i])]

\* the quadrance of a Complex is a Real
ComplexQuad(z) ==
    LET p == ComplexMul(z, ComplexConj(z)) IN <<p[1], p[3]>>

QuaternionConj(y) ==
    <<y[1], FNeg(y[2]), FNeg(y[3]), FNeg(y[4]),
      y[5], FNeg(y[6]), FNeg(y[7]), FNeg(y[8])>>

QuaternionAdd(x, y) == [i \in 1..8 |-> FAdd(x[i], y[i])]

QuaternionQuad(z) ==
    LET p == QuaternionMul(z, QuaternionConj(z)) IN <<p[1], p[5]>>

(* the pair-based Complex *)

PairComplexConj(y) ==
    <<<<y[1][1], FNeg(y[1][2])>>, <<y[2][1], FNeg(y[2][2])>>>>

PairComplexAdd(x, y) == <<CAdd(x[1], y[1]), CAdd(x[2], y[2])>>

PairComplexQuad(z) ==
    LET p == PairComplexMul(z, PairComplexConj(z)) IN <<p[1][1], p[2][1]>>

----------------------------------------------------------------------------
(* package qtr: the arithmetic of a qtr.Hamilton *)

QtrNeg(y) == [i \in 1..4 |-> FNeg(y[i])]

QtrAdd(x, y) == [i \in 1..4 |-> FAdd(x[i], y[i])]

QtrSub(x, y) == [i \in 1..4 |-> FSub(x[i], y[i])]

\* the Hamilton product: i i = j j = k k = -1, i j = k, j k = i, k i = j
QtrMul(x, y) ==
    <<Sum4(FMul(x[1], y[1]), FNeg(FMul(x[2], y[2])), FNeg(FMul(x[3], y[3])),
           FNeg(FMul(x[4], y[4]))),
      Sum4(FMul(x[1], y[2]), FMul(x[2], y[1]), FMul(x[3], y[4]),
           FNeg(FMul(x[4], y[3]))),
      Sum4(FMul(x[1], y[3]), FNeg(FMul(x[2], y[4])), FMul(x[3], y[1]),
           FMul(x[4], y[2])),
      Sum4(FMul(x[1], y[4]), FMul(x[2], y[3]), FNeg(FMul(x[3], y[2])),
           FMul(x[4], y[1]))>>

----------------------------------------------------------------------------
(* hamilton.go: the arithmetic of a Hamilton *)

HamiltonScalR(y, a) == <<QtrMul(y[1], a), QtrMul(y[2], a)>>

HamiltonScalL(a, y) == <<QtrMul(a, y[1]), QtrMul(a, y[2])>>

\* Conj that negates the real part too
HamiltonConjNegAll(y) == <<QtrNeg(QtrConj(y[1])), QtrNeg(y[2])>>

HamiltonConj(y) == <<QtrConj(y[1]), QtrNeg(y[2])>>

HamiltonAdd(x, y) == <<QtrAdd(x[1], y[1]), QtrAdd(x[2], y[2])>>

\* Mul that conjugates q[0] before the real part is computed
HamiltonMulConjFirst(x, y) ==
    LET p  == x
        q0 == QtrConj(y[1])
    IN <<QtrMul(p[1], q0),
         QtrAdd(QtrMul(y[2], p[1]), QtrMul(p[2], q0))>>

\* p and q are copies of x and y; q[0] is conjugated in place after z[0] and
\* the first product of z[1] have been computed
HamiltonMul(x, y) ==
    LET p  == x
        q  == y
        z0 == QtrMul(p[1], q[1])
        a1 == QtrMul(q[2], p[1])
        q0 == QtrConj(q[1])
    IN <<z0, QtrAdd(a1, QtrMul(p[2], q0))>>

\* Quad that adds the quadrance of the dual part
HamiltonQuadBoth(z) == FAdd(QtrQuad(z[1]), QtrQuad(z[2]))

HamiltonQuad(z) == QtrQuad(z[1])

----------------------------------------------------------------------------
(* package split: a split.Complex is [2]float64, <<1, s>> with s s = +1 *)

SplitConj(y) == <<y[1], FNeg(y[2])>>

SplitAdd(x, y) == <<FAdd(x[1], y[1]), FAdd(x[2], y[2])>>

SplitMul(x, y) ==
    <<FAdd(FMul(x[1], y[1]), FMul(x[2], y[2])),
      FAdd(FMul(x[1], y[2]), FMul(x[2], y[1]))>>

(* perplex.go: the arithmetic of a Perplex *)

PerplexConj(y) == <<SplitConj(y[1]), SplitConj(y[2])>>

PerplexAdd(x, y) == <<SplitAdd(x[1], y[1]), SplitAdd(x[2], y[2])>>

PerplexMul(x, y) ==
    <<SplitMul(x[1], y[1]),
      SplitAdd(SplitMul(x[1], y[2]), SplitMul(x[2], y[1]))>>

\* the quadrance of a Perplex is a Real
PerplexQuad(z) ==
    LET p == PerplexMul(z, PerplexConj(z)) IN <<p[1][1], p[2][1]>>

(* ultra.go: the arithmetic of an Ultra *)

UltraAdd(x, y) == <<SuperAdd(x[1], y[1]), SuperAdd(x[2], y[2])>>

UltraQuad(z) == FMul(z[1][1], z[1][1])

----------------------------------------------------------------------------
(* hamilton.go: Sub, Commutator and Associator *)

\* Sub that adds
HamiltonSubAdds(x, y) == <<QtrAdd(x[1], y[1]), QtrAdd(x[2], y[2])>>

HamiltonSub(x, y) == <<QtrSub(x[1], y[1]), QtrSub(x[2], y[2])>>

\* z.Sub(new(Hamilton).Mul(x, y), new(Hamilton).Mul(y, x))
HamiltonCommutator(x, y) == HamiltonSub(HamiltonMul(x, y), HamiltonMul(y, x))

HamiltonAssociator(w_, x, y) ==
    HamiltonSub(HamiltonMul(HamiltonMul(w_, x), y),
                HamiltonMul(w_, HamiltonMul(x, y)))

----------------------------------------------------------------------------
(* unnamed/part_001: the Mul of the Hamilton built on a pair of qtr.Hamilton *)

\* Mul with the twisted dual part of hamilton.go
PairHamiltonMulTwisted(x, y) ==
    LET p == x
        q == y
    IN <<QtrMul(p[1], q[1]),
         QtrAdd(QtrMul(q[2], p[1]), QtrMul(p[2], QtrConj(q[1])))>>

PairHamiltonMul(x, y) ==
    LET p == x
        q == y
    IN <<QtrMul(p[1], q[1]),
         QtrAdd(QtrMul(p[1], q[2]), QtrMul(p[2], q[1]))>>

----------------------------------------------------------------------------
(* super.go, lines 204-413: the revision of Perplex that writes through     *)
(* z.Real() and z.Dual().  A Perplex is <<real, dual>>, each a split.Complex *)
(* or Nil (the pointer of a new(Perplex)).  An operation gives the pair     *)
(* <<the receiver after the call, whether the call panicked>>: a method of   *)
(* split.Complex that writes to a nil receiver panics.                       *)

Nil == <<>>

SplitSub(x, y) == <<FSub(x[1], y[1]), FSub(x[2], y[2])>>

\* z.Copy(y): SetReal and SetDual replace the pointers of z
PerplexRevCopy(zv, y) == <<<<y[1], y[2]>>, FALSE>>

\* z.Mul(x, y)
PerplexRevMul(zv, x, y) ==
    LET p  == x
        q  == y
        z0 == SplitMul(p[1], q[1])
        z1 == SplitMul(q[2], p[1])
        q1 == SplitMul(p[2], SplitConj(q[1]))
    IN IF zv[1] = Nil THEN <<zv, TRUE>>
       ELSE IF zv[2] = Nil THEN <<<<z0, Nil>>, TRUE>>
       ELSE <<<<z0, SplitAdd(z1, q1)>>, FALSE>>

\* z.Sub(x, y)
PerplexRevSub(zv, x, y) ==
    IF zv[1] = Nil THEN <<zv, TRUE>>
    ELSE IF zv[2] = Nil THEN <<<<SplitSub(x[1], y[1]), Nil>>, TRUE>>
    ELSE <<<<SplitSub(x[1], y[1]), SplitSub(x[2], y[2])>>, FALSE>>

\* z.Mul(x, y); return z.Sub(z, new(Perplex).Mul(y, x))
PerplexRevCommutator(zv, x, y) ==
    LET m == PerplexRevMul(zv, x, y)
        t == PerplexRevMul(<<Nil, Nil>>, y, x)
    IN IF m[2] THEN m
       ELSE IF t[2] THEN <<m[1], TRUE>>
       ELSE PerplexRevSub(m[1], m[1], t[1])

----------------------------------------------------------------------------
(* objects.  A heap is a sequence of objects and an object is its index in  *)
(* the heap.  A Real, a Super, a flat Complex, a qtr.Hamilton and a          *)
(* split.Complex are arrays of float64; a Hamilton, an Ultra and a Perplex   *)
(* are arrays of two pointers, <<real, dual>>, to objects of the heap.       *)
(* An operation is the composition of its statements, each a map of heaps.   *)

PairTypes == {"Hamilton", "Ultra", "Perplex"}

\* z[k] = v, on the object z of the heap h
SetAt(h, zo, k, v) == [h EXCEPT ![zo][k] = v]

\* z[k] = new(T).Op(...): a new object holding v, and z[k] pointing to it
AssignNew(h, zo, k, v) == [Append(h, v) EXCEPT ![zo][k] = Len(h) + 1]

\* the value of the object o of type t in the heap h
Val(t, h, o) == IF t \in PairTypes THEN <<h[h[o][1]], h[h[o][2]]>> ELSE h[o]

\* Copy that copies the two pointers
CopyAtShallow(t, h, zo, yo) ==
    IF t \in PairTypes THEN [h EXCEPT ![zo] = <<h[yo][1], h[yo][2]>>]
    ELSE [h EXCEPT ![zo] = h[yo]]

\* z.Copy(y): of a Hamilton, z[0] = new(qtr.Hamilton).Copy(y[0]) and the same
\* for z[1] (Ultra and Perplex alike); of a flat type, the loop over the
\* components
CopyAt(t, h, zo, yo) ==
    LET S1(g) == AssignNew(g, zo, 1, g[g[yo][1]])
        S2(g) == AssignNew(g, zo, 2, g[g[yo][2]])
    IN IF t \in PairTypes THEN S2(S1(h)) ELSE [h EXCEPT ![zo] = h[yo]]

\* new(T).Copy(y): the new object is Len(h) + 1; a copy of a Hamilton or an
\* Ultra adds three objects to the heap, a copy of a flat value one
NewCopy(t, h, yo) ==
    IF t \in PairTypes THEN CopyAt(t, Append(h, <<0, 0>>), Len(h) + 1, yo)
    ELSE Append(h, h[yo])

\* Real.Mul that reads x and y where they are, without the copies p and q
RealMulAtNoCopy(h, zo, xo, yo) ==
    LET p == xo
        q == yo
        S1(g) == SetAt(g, zo, 1, FMul(g[p][1], g[q][1]))
        S2(g) == SetAt(g, zo, 2, FAdd(FMul(g[p][1], g[q][2]),
                                      FMul(g[p][2], g[q][1])))
    IN S2(S1(h))

\* Real.Mul: p and q are copies of x and y, then z.SetReal and z.SetDual
RealMulAt(h, zo, xo, yo) ==
    LET p == Len(h) + 1
        q == Len(h) + 2
        S1(g) == SetAt(g, zo, 1, FMul(g[p][1], g[q][1]))
        S2(g) == SetAt(g, zo, 2, FAdd(FMul(g[p][1], g[q][2]),
                                      FMul(g[p][2], g[q][1])))
    IN S2(S1(NewCopy("Real", NewCopy("Real", h, xo), yo)))

\* Complex.Mul and Super.Mul: p and q are copies of x and y, and the four
\* assignments to z read p and q
FlatMulAt(t, h, zo, xo, yo) ==
    LET p == Len(h) + 1
        q == Len(h) + 2
        F(a, b) == IF t = "Complex" THEN ComplexMul(a, b) ELSE SuperMul(a, b)
        S1(g) == SetAt(g, zo, 1, F(g[p], g[q])[1])
        S2(g) == SetAt(g, zo, 2, F(g[p], g[q])[2])
        S3(g) == SetAt(g, zo, 3, F(g[p], g[q])[3])
        S4(g) == SetAt(g, zo, 4, F(g[p], g[q])[4])
    IN S4(S3(S2(S1(NewCopy(t, NewCopy(t, h, xo), yo)))))

\* the operations of the parts of a Hamilton (qtr.Hamilton) and of an Ultra
\* (Super)
BaseMul(t, a, b) == IF t = "Hamilton" THEN QtrMul(a, b) ELSE SuperMul(a, b)

BaseAdd(t, a, b) == IF t = "Hamilton" THEN QtrAdd(a, b) ELSE SuperAdd(a, b)

\* Super.Conj is called by ultra.go and not defined in super.go: it is taken
\* to negate the three components that are not real
SuperConj(y) == <<y[1], FNeg(y[2]), FNeg(y[3]), FNeg(y[4])>>

BaseConj(t, a) == IF t = "Hamilton" THEN QtrConj(a) ELSE SuperConj(a)

\* Mul that takes p and q to be x and y themselves
PairMulAtNoCopy(t, h, zo, xo, yo) ==
    LET p == xo
        q == yo
        S1(g) == AssignNew(g, zo, 1, BaseMul(t, g[g[p][1]], g[g[q][1]]))
        S2(g) == Append(g, BaseMul(t, g[g[q][2]], g[g[p][1]]))
        S3(g) == [g EXCEPT ![g[q][1]] = BaseConj(t, @)]
        S4(g) == Append(g, BaseMul(t, g[g[p][2]], g[g[q][1]]))
        S5(g) == AssignNew(g, zo, 2, BaseAdd(t, g[Len(g) - 1], g[Len(g)]))
    IN S5(S4(S3(S2(S1(h)))))

\* Hamilton.Mul and Ultra.Mul, statement by statement: p and q are new
\* copies of x and y; z[0] is a new p[0] q[0]; then q[1] p[0] is computed,
\* q[0] is conjugated in place, p[1] q[0] is computed (the two products are
\* the last two objects of the heap), and z[1] is their new sum
PairMulAt(t, h, zo, xo, yo) ==
    LET p == Len(h) + 1
        q == Len(h) + 4
        S1(g) == AssignNew(g, zo, 1, BaseMul(t, g[g[p][1]], g[g[q][1]]))
        S2(g) == Append(g, BaseMul(t, g[g[q][2]], g[g[p][1]]))
        S3(g) == [g EXCEPT ![g[q][1]] = BaseConj(t, @)]
        S4(g) == Append(g, BaseMul(t, g[g[p][2]], g[g[q][1]]))
        S5(g) == AssignNew(g, zo, 2, BaseAdd(t, g[Len(g) - 1], g[Len(g)]))
    IN S5(S4(S3(S2(S1(NewCopy(t, NewCopy(t, h, xo), yo))))))

\* z.Mul(x, y) on the heap h
MulAt(t, h, zo, xo, yo) ==
    CASE t = "Real" -> RealMulAt(h, zo, xo, yo)
      [] t \in {"Complex", "Super"} -> FlatMulAt(t, h, zo, xo, yo)
      [] t \in {"Hamilton", "Ultra"} -> PairMulAt(t, h, zo, xo, yo)

\* the other operations of the parts: they act component by component
BaseSub(t, a, b) == [i \in 1..Len(a) |-> FSub(a[i], b[i])]

\* qtr.Hamilton.Scal; Super.Dil is called by ultra.go and not defined in
\* super.go: it is taken to be Super.Scal
BaseDil(t, a, s) == [i \in 1..Len(a) |-> FMul(a[i], s)]

BaseNeg(t, a) == [i \in 1..Len(a) |-> FNeg(a[i])]

\* NewHamilton and NewUltra: a new object, Len(h) + 1, with two new parts
NewAt(t, h, v) ==
    LET o == Len(h) + 1
        S1(g) == AssignNew(g, o, 1, v[1])
        S2(g) == AssignNew(g, o, 2, v[2])
    IN S2(S1(Append(h, <<0, 0>>)))

\* z.ScalR(y, a) of Hamilton and z.Scal(y, a) of Ultra; a is an object
ScalRAt(t, h, zo, yo, a) ==
    LET S1(g) == AssignNew(g, zo, 1, BaseMul(t, g[g[yo][1]], g[a]))
        S2(g) == AssignNew(g, zo, 2, BaseMul(t, g[g[yo][2]], g[a]))
    IN S2(S1(h))

\* z.ScalL(a, y) of Hamilton
ScalLAt(t, h, zo, a, yo) ==
    LET S1(g) == AssignNew(g, zo, 1, BaseMul(t, g[a], g[g[yo][1]]))
        S2(g) == AssignNew(g, zo, 2, BaseMul(t, g[a], g[g[yo][2]]))
    IN S2(S1(h))

\* z.Dil(y, s); z.Neg(y) is z.Dil(y, -1)
DilAt(t, h, zo, yo, s) ==
    LET S1(g) == AssignNew(g, zo, 1, BaseDil(t, g[g[yo][1]], s))
        S2(g) == AssignNew(g, zo, 2, BaseDil(t, g[g[yo][2]], s))
    IN S2(S1(h))

NegAt(t, h, zo, yo) == DilAt(t, h, zo, yo, I(-1))

\* z.Conj(y)
ConjAt(t, h, zo, yo) ==
    LET S1(g) == AssignNew(g, zo, 1, BaseConj(t, g[g[yo][1]]))
        S2(g) == AssignNew(g, zo, 2, BaseNeg(t, g[g[yo][2]]))
    IN S2(S1(h))

\* z.Add(x, y)
AddAt(t, h, zo, xo, yo) ==
    LET S1(g) == AssignNew(g, zo, 1, BaseAdd(t, g[g[xo][1]], g[g[yo][1]]))
        S2(g) == AssignNew(g, zo, 2, BaseAdd(t, g[g[xo][2]], g[g[yo][2]]))
    IN S2(S1(h))

\* z.Sub(x, y)
SubAt(t, h, zo, xo, yo) ==
    LET S1(g) == AssignNew(g, zo, 1, BaseSub(t, g[g[xo][1]], g[g[yo][1]]))
        S2(g) == AssignNew(g, zo, 2, BaseSub(t, g[g[xo][2]], g[g[yo][2]]))
    IN S2(S1(h))

\* new(T).Mul(x, y): the new object is Len(h) + 1
NewMul(t, h, xo, yo) == PairMulAt(t, Append(h, <<0, 0>>), Len(h) + 1, xo, yo)

\* z.Commutator(x, y): z.Sub(new(T).Mul(x, y), new(T).Mul(y, x))
CommutatorAt(t, h, zo, xo, yo) ==
    LET S2(g) == SubAt(t, NewMul(t, g, yo, xo), zo, Len(h) + 1, Len(g) + 1)
    IN S2(NewMul(t, h, xo, yo))

\* z.Associator(w, x, y): z.Sub(new(T).Mul(new(T).Mul(w, x), y),
\* new(T).Mul(w, new(T).Mul(x, y))); g is the heap before each Mul and a, b
\* are the products made before it
AssociatorAt(t, h, zo, wo, xo, yo) ==
    LET S4(g, a, b) == SubAt(t, NewMul(t, g, wo, b), zo, a, Len(g) + 1)
        S3(g, a) == S4(NewMul(t, g, xo, yo), a, Len(g) + 1)
        S2(g) == S3(NewMul(t, g, Len(h) + 1, yo), Len(g) + 1)
    IN S2(NewMul(t, h, wo, xo))

\* math.Sinh and math.Cosh, by the first two terms of their series: exact at
\* 0 and at the infinities, odd and even, and increasing on the positive
\* numbers
SinhF(v) == FAdd(v, FDiv(FMul(v, FMul(v, v)), I(6)))

CoshF(v) == FAdd(One, FDiv(FMul(v, v), I(2)))

\* z.Sinh(y): z.SetReal(math.Sinh(y.Real())), then
\* z.SetDual(y.Dual() * math.Cosh(y.Real()))
RealSinhAt(h, zo, yo) ==
    LET S1(g) == SetAt(g, zo, 1, SinhF(g[yo][1]))
        S2(g) == SetAt(g, zo, 2, FMul(g[yo][2], CoshF(g[yo][1])))
    IN S2(S1(h))

\* z.Cosh(y)
RealCoshAt(h, zo, yo) ==
    LET S1(g) == SetAt(g, zo, 1, CoshF(g[yo][1]))
        S2(g) == SetAt(g, zo, 2, FMul(g[yo][2], SinhF(g[yo][1])))
    IN S2(S1(h))

\* z.ScalC(y, c): the four assignments, each reading y as it then is
ComplexScalCAt(h, zo, yo, c) ==
    LET a == c[1]
        b == c[2]
        S1(g) == SetAt(g, zo, 1, FSub(FMul(g[yo][1], a), FMul(g[yo][2], b)))
        S2(g) == SetAt(g, zo, 2, FAdd(FMul(g[yo][1], b), FMul(g[yo][2], a)))
        S3(g) == SetAt(g, zo, 3, FSub(FMul(g[yo][3], a), FMul(g[yo][4], b)))
        S4(g) == SetAt(g, zo, 4, FAdd(FMul(g[yo][3], b), FMul(g[yo][4], a)))
    IN S4(S3(S2(S1(h))))

----------------------------------------------------------------------------
(* String: fmt.Sprintf("%g", v) and the strings built from it *)

Digit(n) ==
    CASE n = 0 -> "0" [] n = 1 -> "1" [] n = 2 -> "2" [] n = 3 -> "3"
      [] n = 4 -> "4" [] n = 5 -> "5" [] n = 6 -> "6" [] n = 7 -> "7"
      [] n = 8 -> "8" [] n = 9 -> "9"

RECURSIVE Digits(_)
Digits(n) == IF n < 10 THEN Digit(n) ELSE Digits(n \div 10) \o Digit(n % 10)

\* math.Signbit(v): negative numbers and -Inf (a zero with the sign bit set
\* is not told apart from 0 here)
Signbit(v) == v = NInf \/ (IsFinF(v) /\ v[1] < 0)

\* fmt.Sprintf("%g", v) for NaN, the infinities, and the integers and halves
\* below 10^21, which %g prints without an exponent
FormatG(v) ==
    CASE v = NaN  -> "NaN"
      [] v = PInf -> "+Inf"
      [] v = NInf -> "-Inf"
      [] IsFinF(v) /\ v[3] = 0 /\ v[2] = 1 ->
             (IF v[1] < 0 THEN "-" ELSE "") \o Digits(Abs(v[1]))
      [] IsFinF(v) /\ v[3] = 0 /\ v[2] = 2 ->
             (IF v[1] < 0 THEN "-" ELSE "") \o Digits(Abs(v[1]) \div 2)
                 \o ".5"

\* the piece without the case of positive infinity
SignedPieceNoInfCase(v) ==
    IF Signbit(v) THEN FormatG(v) ELSE "+" \o FormatG(v)

\* the piece String makes of a component that is not the first
SignedPiece(v) ==
    IF Signbit(v) THEN FormatG(v)
    ELSE IF v = PInf THEN "+Inf"
    ELSE "+" \o FormatG(v)

RealString(z) ==
    "(" \o FormatG(z[1]) \o SignedPiece(z[2]) \o "ε" \o ")"

symbHamilton == <<"", "i", "j", "k", "ε", "εi", "εj", "εk">>

\* the pieces a[j], a[j+1] of the components i, i+1, ..., 8, joined
RECURSIVE HamiltonPieces(_, _)
HamiltonPieces(v, i) ==
    IF i > 8 THEN ""
    ELSE SignedPiece(v[i]) \o symbHamilton[i] \o HamiltonPieces(v, i + 1)

HamiltonString(z) ==
    LET v == z[1] \o z[2]
    IN "(" \o FormatG(v[1]) \o HamiltonPieces(v, 2) \o ")"

----------------------------------------------------------------------------
(* the operations by type *)

IsZeroDiv(t, v) ==
    CASE t = "Real"    -> RealIsZeroDiv(v)
      [] t = "Super"   -> SuperIsZeroDiv(v)
      [] t = "Complex" -> ComplexIsZeroDiv(v)
      [] t = "PairComplex" -> PairComplexIsZeroDiv(v)
      [] t = "Quaternion"  -> QuaternionIsZeroDiv(v)
      [] t = "Hamilton"    -> HamiltonIsZeroDiv(v)
      [] t = "Perplex"     -> PerplexIsZeroDiv(v)

Inv(t, v) ==
    CASE t = "Real"    -> RealInv(v)
      [] t = "Super"   -> SuperInv(v)
      [] t = "Complex" -> ComplexInv(v)
      [] t = "PairComplex" -> PairComplexInv(v)
      [] t = "Quaternion"  -> QuaternionInv(v)

Quo(t, u, v) ==
    CASE t = "Real"    -> RealQuo(u, v)
      [] t = "Super"   -> SuperQuo(u, v)
      [] t = "Complex" -> ComplexQuo(u, v)
      [] t = "PairComplex" -> PairComplexQuo(u, v)
      [] t = "Quaternion"  -> QuaternionQuo(u, v)

Mul(t, u, v) ==
    CASE t = "Real"    -> RealMul(u, v)
      [] t = "Super"   -> SuperMul(u, v)
      [] t = "Complex" -> ComplexMul(u, v)
      [] t = "PairComplex" -> PairComplexMul(u, v)
      [] t = "Quaternion"  -> QuaternionMul(u, v)
      [] t = "Hamilton"    -> HamiltonMul(u, v)
      [] t = "Perplex"     -> PerplexMul(u, v)

Add(t, u, v) ==
    CASE t = "Real"        -> RealAdd(u, v)
      [] t = "Super"       -> SuperAdd(u, v)
      [] t = "Complex"     -> ComplexAdd(u, v)
      [] t = "PairComplex" -> PairComplexAdd(u, v)
      [] t = "Quaternion"  -> QuaternionAdd(u, v)
      [] t = "Hamilton"    -> HamiltonAdd(u, v)
      [] t = "Perplex"     -> PerplexAdd(u, v)
      [] t = "Ultra"       -> UltraAdd(u, v)

Conj(t, v) ==
    CASE t = "Real"        -> RealConj(v)
      [] t = "Complex"     -> ComplexConj(v)
      [] t = "PairComplex" -> PairComplexConj(v)
      [] t = "Quaternion"  -> QuaternionConj(v)
      [] t = "Hamilton"    -> HamiltonConj(v)
      [] t = "Perplex"     -> PerplexConj(v)

\* DConj of the flat Complex, DualConj of Super
DualConj(t, v) ==
    CASE t = "Complex"     -> ComplexDConj(v)
      [] t = "Super"       -> SuperDualConj(v)

\* Quad returns a float64 (Real, Hamilton, Ultra) or a Real
Quad(t, v) ==
    CASE t = "Real"        -> RealQuad(v)
      [] t = "Complex"     -> ComplexQuad(v)
      [] t = "PairComplex" -> PairComplexQuad(v)
      [] t = "Quaternion"  -> QuaternionQuad(v)
      [] t = "Hamilton"    -> HamiltonQuad(v)
      [] t = "Perplex"     -> PerplexQuad(v)
      [] t = "Ultra"       -> UltraQuad(v)

String(t, v) ==
    CASE t = "Real"     -> RealString(v)
      [] t = "Hamilton" -> HamiltonString(v)

Equals(t, u, v) ==
    CASE t = "Real"    -> RealEquals(u, v)
      [] t = "Super"   -> SuperEquals(u, v)
      [] t = "Complex" -> ComplexEquals(u, v)
      [] t = "PairComplex" -> PairComplexEquals(u, v)
      [] t = "Quaternion"  -> QuaternionEquals(u, v)
      [] t = "Hamilton"    -> HamiltonEquals(u, v)
      [] t = "Perplex"     -> PerplexEquals(u, v)
      [] t = "Ultra"       -> UltraEquals(u, v)

IsInf(t, v) ==
    CASE t = "Real"        -> RealIsInf(v)
      [] t = "Super"       -> SuperIsInf(v)
      [] t = "Complex"     -> ComplexIsComplexInf(v)
      [] t = "PairComplex" -> PairComplexIsComplexInf(v)
      [] t = "Quaternion"  -> QuaternionIsQuaternionInf(v)
      [] t = "Hamilton"    -> HamiltonIsHamiltonInf(v)
      [] t = "Perplex"     -> PerplexIsPerplexInf(v)
      [] t = "Ultra"       -> UltraIsInf(v)

IsNaN(t, v) ==
    CASE t = "Real"        -> RealIsNaN(v)
      [] t = "Super"       -> SuperIsNaN(v)
      [] t = "Complex"     -> ComplexIsComplexNaN(v)
      [] t = "PairComplex" -> PairComplexIsComplexNaN(v)
      [] t = "Quaternion"  -> QuaternionIsQuaternionNaN(v)
      [] t = "Hamilton"    -> HamiltonIsHamiltonNaN(v)
      [] t = "Perplex"     -> PerplexIsPerplexNaN(v)
      [] t = "Ultra"       -> UltraIsNaN(v)

----------------------------------------------------------------------------
(* the inputs *)

\* the integers -MaxNum .. MaxNum as float64 values
Ints == {I(n) : n \in -MaxNum..MaxNum}

Unit == {I(-1), Zero, One}

Bit == {Zero, One}

\* (n/d) * delta
Tiny(n, d) == Norm(n, d, -1)

\* values at the scale of the tolerance: 0, delta/2, +-delta, +-2 delta
TolF == {Zero, Tiny(1, 2), Tiny(1, 1), Tiny(-1, 1), Tiny(2, 1), Tiny(-2, 1)}

SpecialF == {NaN, PInf, NInf}

\* the operands <<x, y>> of a division: ordinary numbers; a divisor y whose
\* real part is at the scale of the tolerance; a non-finite y or x
RealOperands ==
    {<<<<a, b>>, <<c, d>>>> : a \in Ints, b \in Ints,
                              c \in Ints \cup {Q(1, 2)}, d \in Ints}
      \cup {<<<<a, b>>, <<c, d>>>> : a \in Unit, b \in Unit,
                                     c \in TolF, d \in Unit}
      \cup {<<<<a, b>>, <<c, d>>>> : a \in Bit \cup {NaN}, b \in Bit,
                                     c \in SpecialF \cup Bit,
                                     d \in Bit \cup {NaN}}

SuperOperands ==
    {<<<<a, b, c, d>>, <<e, f, g, h>>>> :
        a \in Ints, b \in Bit, c \in Bit, d \in Bit,
        e \in Ints \cup {Q(1, 2)}, f \in Unit, g \in Unit, h \in Unit}
      \cup {<<<<a, b, c, d>>, <<e, f, g, h>>>> :
        a \in Bit, b \in Bit, c \in Bit, d \in Bit,
        e \in TolF, f \in Unit, g \in Bit, h \in Bit}
      \cup {<<<<a, b, c, d>>, <<e, f, g, h>>>> :
        a \in Bit \cup {NaN}, b \in Bit, c \in {Zero}, d \in {One},
        e \in SpecialF \cup Bit, f \in Bit \cup {NaN}, g \in Bit, h \in {One}}

\* real parts <<a, b>> of a Complex at the scale of the tolerance: both, one
\* or none of a and b within delta of 0
ComplexTolParts ==
    {<<a, Zero>> : a \in TolF} \cup {<<Zero, a>> : a \in TolF}
      \cup {<<Tiny(1, 1), Tiny(1, 1)>>, <<Tiny(1, 2), Tiny(-1, 1)>>,
            <<Tiny(2, 1), Tiny(2, 1)>>, <<Tiny(1, 1), Tiny(2, 1)>>,
            <<Tiny(-2, 1), Tiny(1, 1)>>}

ComplexOperands ==
    {<<<<a, b, c, d>>, <<e, f, g, h>>>> :
        a \in Ints, b \in Unit, c \in Bit, d \in Bit,
        e \in Ints, f \in Ints, g \in Unit, h \in Unit}
      \cup {<<<<a, b, c, d>>, <<e, f, g, h>>>> :
        a \in Bit, b \in Bit, c \in Bit, d \in Bit,
        <<e, f>> \in ComplexTolParts, g \in Bit, h \in Bit}
      \cup {<<<<a, b, c, d>>, <<e, f, g, h>>>> :
        a \in Bit \cup {NaN}, b \in Bit, c \in {Zero}, d \in {One},
        e \in SpecialF \cup Bit, f \in SpecialF \cup Bit, g \in Bit,
        h \in {One}}

Operands(t) ==
    CASE t = "Real"    -> RealOperands
      [] t = "Super"   -> SuperOperands
      [] t = "Complex" -> ComplexOperands

\* the receiver before the call: a value no operation of the model returns
Fresh(t) == IF t = "Real" THEN <<I(7), I(7)>> ELSE <<I(7), I(7), I(7), I(7)>>

DivTypes == {"Real", "Super", "Complex"}

----------------------------------------------------------------------------
(* the state: a receiver z and operands x, y and w of type ty, the calls   *)
(* made so far, whether the last call panicked, and the boolean the last   *)
(* predicate returned.  Where the identity of objects matters, heap holds   *)
(* the objects (an object is its index in heap), x, y and z are objects     *)
(* and w is the heap before the last call; elsewhere heap is empty and x,   *)
(* y, w and z are values.                                                   *)

VARIABLES ty, x, y, w, z, hist, panicked, ret, heap

vars == <<ty, x, y, w, z, hist, panicked, ret, heap>>

\* the effect of a call that stores its result r in the receiver z
Store(r, op) ==
    /\ z' = IF r = Panic THEN z ELSE r
    /\ panicked' = (r = Panic)
    /\ hist' = Append(hist, op)
    /\ UNCHANGED <<ty, x, y, w, ret, heap>>

InitDiv ==
    /\ heap = <<>>
    /\ ty \in DivTypes
    /\ \E o \in Operands(ty) : x = o[1] /\ y = o[2]
    /\ z = Fresh(ty)
    /\ w = x
    /\ hist = <<>>
    /\ panicked = FALSE
    /\ ret = FALSE

\* z.Inv(y)
DoInv == hist = <<>> /\ Store(Inv(ty, y), "Inv")

\* z.Quo(x, y)
DoQuo == hist = <<>> /\ Store(Quo(ty, x, y), "Quo")

\* z.Mul(x, y)
DoMul == hist = <<>> /\ Store(Mul(ty, x, y), "Mul")

\* z.Quo(z, y), after z.Mul(x, y)
DoQuoZ == hist = <<"Mul">> /\ Store(Quo(ty, z, y), "Quo")

NextDiv == DoInv \/ DoQuo \/ DoMul \/ DoQuoZ

SpecDiv == InitDiv /\ [][NextDiv]_vars

\* the effect of a predicate that returns the boolean b
Return(b, op) ==
    /\ ret' = b
    /\ hist' = Append(hist, op)
    /\ UNCHANGED <<ty, x, y, w, z, panicked, heap>>

\* y.IsZeroDiv()
DoIsZeroDiv == hist = <<>> /\ ty # "Ultra" /\ Return(IsZeroDiv(ty, y), "IsZeroDiv")

\* x.Equals(y)
DoEquals == hist = <<>> /\ Return(Equals(ty, x, y), "Equals")

\* y.IsInf()
DoIsInf == hist = <<>> /\ Return(IsInf(ty, y), "IsInf")

\* y.IsNaN()
DoIsNaN == hist = <<>> /\ Return(IsNaN(ty, y), "IsNaN")

(* the pair-based Complex: operands with a zero and a nonzero real part *)

PairComplexOperands ==
    {<<<<<<a, b>>, <<c, d>>>>, <<<<e, f>>, <<g, h>>>>>> :
        a \in Bit, b \in Bit, c \in Bit, d \in Bit,
        e \in Ints, f \in Ints, g \in Unit, h \in Unit}

InitPair ==
    /\ heap = <<>>
    /\ ty = "PairComplex"
    /\ \E o \in PairComplexOperands : x = o[1] /\ y = o[2]
    /\ z = <<<<I(7), I(7)>>, <<I(7), I(7)>>>>
    /\ w = x
    /\ hist = <<>>
    /\ panicked = FALSE
    /\ ret = FALSE

SpecPair == InitPair /\ [][NextDiv]_vars

(* the flat Quaternion: the dividend x is a basis element or their sum *)

Basis8(i) == [j \in 1..8 |-> IF j = i THEN One ELSE Zero]

QuaternionOperands ==
    {<<u, <<a, b, c, d, e, f, g, h>>>> :
        u \in {Basis8(i) : i \in 1..8} \cup {[j \in 1..8 |-> One]},
        a \in Ints, b \in Unit, c \in Unit, d \in Unit,
        e \in Bit, f \in Bit, g \in Bit, h \in Bit}

InitQuat ==
    /\ heap = <<>>
    /\ ty = "Quaternion"
    /\ \E o \in QuaternionOperands : x = o[1] /\ y = o[2]
    /\ z = [j \in 1..8 |-> I(7)]
    /\ w = x
    /\ hist = <<>>
    /\ panicked = FALSE
    /\ ret = FALSE

NextQuat == NextDiv \/ DoIsZeroDiv

SpecQuat == InitQuat /\ [][NextQuat]_vars

(* the predicates of every type *)

AllTypes ==
    {"Real", "Super", "Complex", "PairComplex", "Quaternion", "Hamilton",
     "Perplex", "Ultra"}

\* the number of float64 components of a value of type t
Dim(t) ==
    CASE t = "Real" -> 2
      [] t \in {"Super", "Complex", "PairComplex", "Perplex"} -> 4
      [] t \in {"Quaternion", "Hamilton", "Ultra"} -> 8

\* the value of type t whose components, in basis order, are v[1], v[2], ...
Shape(t, v) ==
    CASE t \in {"Real", "Super", "Complex", "Quaternion"} -> v
      [] t \in {"PairComplex", "Perplex"} -> <<<<v[1], v[2]>>, <<v[3], v[4]>>>>
      [] t \in {"Hamilton", "Ultra"} ->
             <<<<v[1], v[2], v[3], v[4]>>, <<v[5], v[6], v[7], v[8]>>>>

\* the components of a value of type t, in basis order
Comps(t, v) ==
    CASE t \in {"Real", "Super", "Complex", "Quaternion"} -> v
      [] t \in {"PairComplex", "Perplex"} -> v[1] \o v[2]
      [] t \in {"Hamilton", "Ultra"} -> v[1] \o v[2]

\* one finite value and the three non-finite ones
ClassF == {One, PInf, NInf, NaN}

InitClassify ==
    /\ heap = <<>>
    /\ ty \in AllTypes
    /\ y \in {Shape(ty, v) : v \in [1..Dim(ty) -> ClassF]}
    /\ x = Shape(ty, [i \in 1..Dim(ty) |-> Zero])
    /\ z = x
    /\ w = x
    /\ hist = <<>>
    /\ panicked = FALSE
    /\ ret = FALSE

NextClassify == DoIsInf \/ DoIsNaN

SpecClassify == InitClassify /\ [][NextClassify]_vars

\* the differences between two components: none, at the scale of the
\* tolerance, of ordinary size, and not a number or infinite
DiffF ==
    {Zero, Tiny(1, 2), Tiny(1, 1), Tiny(-1, 1), Tiny(2, 1), Tiny(-2, 1), One,
     NaN, PInf}

\* v with d added to component i and e to component j
Perturb(v, i, d, j, e) ==
    [n \in DOMAIN v |->
        FAdd(FAdd(v[n], IF n = i THEN d ELSE Zero), IF n = j THEN e ELSE Zero)]

\* x has all components 0 or all components 1; y differs from x in at most
\* two components
CompareOperands(t) ==
    {<<Shape(t, u), Shape(t, Perturb(u, i, d, j, e))>> :
        u \in {[n \in 1..Dim(t) |-> b] : b \in Bit},
        i \in 1..Dim(t), j \in 1..Dim(t), d \in DiffF, e \in DiffF}

InitCompare ==
    /\ heap = <<>>
    /\ ty \in AllTypes
    /\ \E o \in CompareOperands(ty) : x = o[1] /\ y = o[2]
    /\ z = x
    /\ w = x
    /\ hist = <<>>
    /\ panicked = FALSE
    /\ ret = FALSE

NextCompare == DoEquals \/ DoIsZeroDiv

SpecCompare == InitCompare /\ [][NextCompare]_vars

(* the operands of the algebraic operations: the basis elements, 0, the    *)
(* sum of the basis elements, vectors with distinct components, and sums    *)
(* and differences of two basis elements                                    *)

BasisN(n, i) == [j \in 1..n |-> IF j = i THEN One ELSE Zero]

Ramp(n, m) == [i \in 1..n |-> I(((i * m) % (2 * MaxNum + 1)) - MaxNum)]

Vecs(n) ==
    {BasisN(n, i) : i \in 1..n}
      \cup {[i \in 1..n |-> Zero], [i \in 1..n |-> One]}
      \cup {Ramp(n, m) : m \in 1..MaxNum}

Vecs2(n) ==
    Vecs(n)
      \cup {[k \in 1..n |-> FAdd(BasisN(n, i)[k], BasisN(n, j)[k])] :
                i \in 1..n, j \in 1..n}
      \cup {[k \in 1..n |-> FSub(BasisN(n, i)[k], BasisN(n, j)[k])] :
                i \in 1..n, j \in 1..n}

\* vectors with components that are not finite
VecsSpecial(n) ==
    {[i \in 1..n |-> IF i = k THEN s ELSE One] : k \in 1..n, s \in SpecialF}

AlgVals(t) == {Shape(t, v) : v \in Vecs(Dim(t))}

AlgVals2(t) ==
    {Shape(t, v) : v \in Vecs2(Dim(t))}
      \cup (IF t = "Real" THEN {<<a, b>> : a \in Ints, b \in Ints} ELSE {})

(* the conjugations *)

ConjTypes == {"Real", "Complex", "Super", "Hamilton"}

InitConj ==
    /\ heap = <<>>
    /\ ty \in ConjTypes
    /\ x \in AlgVals2(ty) \cup {Shape(ty, v) : v \in VecsSpecial(Dim(ty))}
    /\ y = x
    /\ w = x
    /\ z = Shape(ty, [i \in 1..Dim(ty) |-> I(7)])
    /\ hist = <<>>
    /\ panicked = FALSE
    /\ ret = FALSE

\* z.Conj(x)
DoConj ==
    /\ hist = <<>>
    /\ ty \in {"Real", "Complex", "Hamilton"}
    /\ Store(Conj(ty, x), "Conj")

\* z.Conj(z), after z.Conj(x)
DoConjZ == hist = <<"Conj">> /\ Store(Conj(ty, z), "Conj")

\* z.DConj(x) of the flat Complex, z.DualConj(x) of Super
DoDualConj ==
    /\ hist = <<>>
    /\ ty \in {"Complex", "Super"}
    /\ Store(DualConj(ty, x), "DualConj")

\* z.DConj(z) or z.DualConj(z), after z.DConj(x) or z.DualConj(x)
DoDualConjZ == hist = <<"DualConj">> /\ Store(DualConj(ty, z), "DualConj")

NextConj == DoConj \/ DoConjZ \/ DoDualConj \/ DoDualConjZ

SpecConj == InitConj /\ [][NextConj]_vars

(* addition *)

AddVals(t) ==
    IF t = "Real"
    THEN {<<a, b>> : a \in Ints, b \in Ints} \cup {<<I(3), I(4)>>}
    ELSE AlgVals(t)

InitAdd ==
    /\ heap = <<>>
    /\ ty \in AllTypes
    /\ x \in AddVals(ty)
    /\ y \in AddVals(ty)
    /\ w \in AddVals(ty)
    /\ z = Shape(ty, [i \in 1..Dim(ty) |-> I(7)])
    /\ hist = <<>>
    /\ panicked = FALSE
    /\ ret = FALSE

\* z.Add(x, y)
DoAdd == hist = <<>> /\ Store(Add(ty, x, y), "Add")

\* z.Add(z, w), after z.Add(x, y)
DoAddW == hist = <<"Add">> /\ Store(Add(ty, z, w), "Add")

NextAdd == DoAdd \/ DoAddW

SpecAdd == InitAdd /\ [][NextAdd]_vars

(* the quadrance *)

QuadTypes ==
    {"Real", "Complex", "PairComplex", "Quaternion", "Hamilton", "Perplex",
     "Ultra"}

InitQuad ==
    /\ heap = <<>>
    /\ ty \in QuadTypes
    /\ x \in AlgVals2(ty)
    /\ y = x
    /\ w = x
    /\ z = Shape(ty, [i \in 1..Dim(ty) |-> I(7)])
    /\ hist = <<>>
    /\ panicked = FALSE
    /\ ret = FALSE

\* z.Conj(x), for the product of x and its conjugate
DoConjX == hist = <<>> /\ ty # "Ultra" /\ Store(Conj(ty, x), "Conj")

\* z.Mul(x, z), after z.Conj(x)
DoMulConj == hist = <<"Conj">> /\ Store(Mul(ty, x, z), "Mul")

\* x.Quad(); the float64 or the Real it returns is kept in ret
DoQuad ==
    /\ hist \in {<<>>, <<"Conj", "Mul">>}
    /\ Return(Quad(ty, x), "Quad")

NextQuad == DoConjX \/ DoMulConj \/ DoQuad

SpecQuad == InitQuad /\ [][NextQuad]_vars

(* the product of two Hamiltons *)

InitHMul ==
    /\ heap = <<>>
    /\ ty = "Hamilton"
    /\ x \in AlgVals2(ty)
    /\ y \in AlgVals2(ty)
    /\ w = x
    /\ z = Shape(ty, [i \in 1..Dim(ty) |-> I(7)])
    /\ hist = <<>>
    /\ panicked = FALSE
    /\ ret = FALSE

NextHMul == DoMul

SpecHMul == InitHMul /\ [][NextHMul]_vars

(* scaling by an element of the base ring: w is the scalar, embedded in the *)
(* real part of a value of type ty                                          *)

ScalTypes == {"Hamilton", "Quaternion", "Complex"}

\* the scalar that w embeds: a qtr.Hamilton, or a complex128
ScalarOf(t, v) ==
    CASE t = "Hamilton"   -> v[1]
      [] t = "Quaternion" -> <<v[1], v[2], v[3], v[4]>>
      [] t = "Complex"    -> <<v[1], v[2]>>

Scalars(t) ==
    CASE t = "Hamilton" ->
             {<<a, <<Zero, Zero, Zero, Zero>>>> : a \in Vecs(4)}
      [] t = "Quaternion" ->
             {a \o <<Zero, Zero, Zero, Zero>> : a \in Vecs(4)}
      [] t = "Complex" ->
             {<<a, b, Zero, Zero>> : a \in Ints, b \in Ints}

InitScal ==
    /\ heap = <<>>
    /\ ty \in ScalTypes
    /\ y \in AlgVals2(ty)
    /\ x = y
    /\ w \in Scalars(ty)
    /\ z = Shape(ty, [i \in 1..Dim(ty) |-> I(7)])
    /\ hist = <<>>
    /\ panicked = FALSE
    /\ ret = FALSE

\* z.ScalR(y, a)
DoScalR ==
    /\ hist = <<>> /\ ty = "Hamilton"
    /\ Store(HamiltonScalR(y, ScalarOf(ty, w)), "ScalR")

\* z.ScalL(a, y)
DoScalL ==
    /\ hist = <<>> /\ ty = "Hamilton"
    /\ Store(HamiltonScalL(ScalarOf(ty, w), y), "ScalL")

\* z.ScalH(y, h)
DoScalH ==
    /\ hist = <<>> /\ ty = "Quaternion"
    /\ Store(QuaternionScalH(y, ScalarOf(ty, w)), "ScalH")

\* z.ScalC(y, c)
DoScalC ==
    /\ hist = <<>> /\ ty = "Complex"
    /\ Store(ComplexScalC(y, ScalarOf(ty, w)), "ScalC")

NextScal == DoScalR \/ DoScalL \/ DoScalH \/ DoScalC

SpecScal == InitScal /\ [][NextScal]_vars

(* products of three operands *)

AssocTypes == {"Real", "Complex", "Super", "Quaternion"}

AssocVals(t) ==
    IF t = "Real" THEN {<<a, b>> : a \in Ints, b \in Ints} ELSE AlgVals(t)

InitAssoc ==
    /\ heap = <<>>
    /\ ty \in AssocTypes
    /\ w \in AssocVals(ty)
    /\ x \in AssocVals(ty)
    /\ y \in AssocVals(ty)
    /\ z = Shape(ty, [i \in 1..Dim(ty) |-> I(7)])
    /\ hist = <<>>
    /\ panicked = FALSE
    /\ ret = FALSE

\* z.Mul(w, x)
DoMulWX == hist = <<>> /\ Store(Mul(ty, w, x), "MulWX")

\* z.Mul(z, y), after z.Mul(w, x)
DoMulZY == hist = <<"MulWX">> /\ Store(Mul(ty, z, y), "MulZY")

\* z.Mul(x, y)
DoMulXY == hist = <<>> /\ Store(Mul(ty, x, y), "MulXY")

\* z.Mul(w, z), after z.Mul(x, y)
DoMulWZ == hist = <<"MulXY">> /\ Store(Mul(ty, w, z), "MulWZ")

NextAssoc == DoMulWX \/ DoMulZY \/ DoMulXY \/ DoMulWZ

SpecAssoc == InitAssoc /\ [][NextAssoc]_vars

(* String *)

StringF == Ints \cup {Q(1, 2), Q(-1, 2), I(4), I(6), NaN, PInf, NInf}

StringVals(t) ==
    IF t = "Real" THEN {<<a, b>> : a \in StringF, b \in StringF}
    ELSE {Shape(t, v) : v \in Vecs(8) \cup VecsSpecial(8)}
           \cup {Shape(t, [i \in 1..8 |-> FNeg(v[i])]) : v \in Vecs(8)}

InitString ==
    /\ heap = <<>>
    /\ ty \in {"Real", "Hamilton"}
    /\ x \in StringVals(ty)
    /\ y = x
    /\ w = x
    /\ z = x
    /\ hist = <<>>
    /\ panicked = FALSE
    /\ ret = FALSE

\* x.String(); the string it returns is kept in ret
DoString == hist = <<>> /\ Return(String(ty, x), "String")

NextString == DoString

SpecString == InitString /\ [][NextString]_vars

(* the commutator and the associator of Hamilton *)

InitComm ==
    /\ heap = <<>>
    /\ ty = "Hamilton"
    /\ w \in AlgVals(ty)
    /\ x \in AlgVals(ty)
    /\ y \in AlgVals(ty)
    /\ z = Shape(ty, [i \in 1..Dim(ty) |-> I(7)])
    /\ hist = <<>>
    /\ panicked = FALSE
    /\ ret = FALSE

\* z.Commutator(x, y)
DoCommutator == hist = <<>> /\ Store(HamiltonCommutator(x, y), "Commutator")

\* z.Commutator(x, x)
DoCommutatorXX == hist = <<>> /\ Store(HamiltonCommutator(x, x), "CommutatorXX")

\* z.Associator(w, x, y)
DoAssociator == hist = <<>> /\ Store(HamiltonAssociator(w, x, y), "Associator")

NextComm == DoCommutator \/ DoCommutatorXX \/ DoAssociator

SpecComm == InitComm /\ [][NextComm]_vars

(* the flat and the paired representation of the same algebra *)

\* the paired type whose values have the components of the flat type t
Paired(t) == IF t = "Complex" THEN "PairComplex" ELSE "Hamilton"

PairedMul(t, u, v) ==
    IF t = "PairComplex" THEN PairComplexMul(u, v) ELSE PairHamiltonMul(u, v)

ReprVals(t) == AlgVals2(t) \cup {Shape(t, v) : v \in VecsSpecial(Dim(t))}

InitRepr ==
    /\ heap = <<>>
    /\ ty \in {"Complex", "Quaternion"}
    /\ x \in ReprVals(ty)
    /\ y \in ReprVals(ty)
    /\ w = x
    /\ z = Shape(ty, [i \in 1..Dim(ty) |-> I(7)])
    /\ hist = <<>>
    /\ panicked = FALSE
    /\ ret = FALSE

\* the flat z.Mul(x, y)
DoMulFlat == hist = <<>> /\ Store(Mul(ty, x, y), "Mul")

\* the paired Mul of the same operands; its result is kept in ret
DoMulPaired ==
    /\ hist = <<"Mul">>
    /\ Return(PairedMul(Paired(ty), Shape(Paired(ty), Comps(ty, x)),
                        Shape(Paired(ty), Comps(ty, y))), "MulPaired")

NextRepr == DoMulFlat \/ DoMulPaired

SpecRepr == InitRepr /\ [][NextRepr]_vars

(* the Perplex of super.go *)

\* the effect of a call that leaves r[1] in the receiver z and panicked iff r[2]
StoreThrough(r, op) ==
    /\ z' = r[1]
    /\ panicked' = r[2]
    /\ hist' = Append(hist, op)
    /\ UNCHANGED <<ty, x, y, w, ret, heap>>

InitPerplexRev ==
    /\ heap = <<>>
    /\ ty = "Perplex"
    /\ x \in AlgVals2(ty)
    /\ y \in AlgVals2(ty)
    /\ w = x
    /\ z \in {Shape(ty, [i \in 1..4 |-> I(7)]), <<Nil, Nil>>}
    /\ hist = <<>>
    /\ panicked = FALSE
    /\ ret = FALSE

\* z.Mul(x, y)
DoPerplexRevMul == hist = <<>> /\ StoreThrough(PerplexRevMul(z, x, y), "Mul")

\* z.Copy(x)
DoPerplexRevCopy == hist = <<>> /\ StoreThrough(PerplexRevCopy(z, x), "Copy")

\* z.Commutator(x, y)
DoPerplexRevCommutator ==
    /\ Len(hist) <= 1
    /\ StoreThrough(PerplexRevCommutator(z, x, y), "Commutator")

NextPerplexRev == DoPerplexRevMul \/ DoPerplexRevCopy \/ DoPerplexRevCommutator

SpecPerplexRev == InitPerplexRev /\ [][NextPerplexRev]_vars

(* calls whose receiver may be one of the operands *)

\* Inv that writes the conjugate of y to z before it looks for a zero divisor
InvAtWriteFirst(t, h, zo, yo) ==
    LET S2(g) == IF IsZeroDiv(t, g[yo]) THEN <<g, TRUE>>
                 ELSE <<[g EXCEPT ![zo] = Inv(t, h[yo])], FALSE>>
    IN S2([h EXCEPT ![zo] = IF t = "Real" THEN RealConj(h[yo])
                            ELSE IF t = "Super" THEN SuperDualConj(h[yo])
                            ELSE ComplexDConj(h[yo])])

\* z.Inv(y) of Real, Super and Complex: the panic on a zero divisor, or
\* z.Scal (z.ScalC) of a new conjugate of y by 1/Quad(y), both computed
\* before z is written.  The result is <<the heap, whether it panicked>>
InvAt(t, h, zo, yo) ==
    IF IsZeroDiv(t, h[yo]) THEN <<h, TRUE>>
    ELSE <<[h EXCEPT ![zo] = Inv(t, h[yo])], FALSE>>

\* z.Quo(x, y)
QuoAt(t, h, zo, xo, yo) ==
    IF IsZeroDiv(t, h[yo]) THEN <<h, TRUE>>
    ELSE <<[h EXCEPT ![zo] = Quo(t, h[xo], h[yo])], FALSE>>

AliasTypes == {"Real", "Complex", "Super", "Hamilton"}

\* the heap of the objects 1 .. Len(vs) of type t with the values vs
MkHeap(t, vs) ==
    IF t \in PairTypes
    THEN [i \in 1..Len(vs) |-> <<Len(vs) + 2 * i - 1, Len(vs) + 2 * i>>]
           \o [j \in 1..(2 * Len(vs)) |-> vs[(j + 1) \div 2][2 - (j % 2)]]
    ELSE vs

\* the complex128 arguments of ScalC
ComplexArgs == {<<a, b>> : a \in {Zero, One}, b \in {Zero, One, I(-MaxNum)}}

\* the effect of a call that leaves the heap r[1] and panicked iff r[2]
Call(r, op) ==
    /\ heap' = r[1]
    /\ panicked' = r[2]
    /\ w' = heap
    /\ hist' = Append(hist, op)
    /\ UNCHANGED <<ty, x, y, z, ret>>

\* x and y are among the objects 1 and 2, z is one of them or the object 3;
\* ret is the complex128 argument of ScalC
InitAlias ==
    /\ ty \in AliasTypes
    /\ \E a \in AssocVals(ty), b \in AssocVals(ty) :
           heap = MkHeap(ty, <<a, b, Shape(ty, [i \in 1..Dim(ty) |-> I(7)])>>)
    /\ x \in {1, 2}
    /\ y \in {1, 2}
    /\ z \in {1, 2, 3}
    /\ w = heap
    /\ hist = <<>>
    /\ panicked = FALSE
    /\ ret \in (IF ty = "Complex" THEN ComplexArgs ELSE {FALSE})

\* z.Mul(x, y)
DoMulAt == hist = <<>> /\ Call(<<MulAt(ty, heap, z, x, y), FALSE>>, "Mul")

\* z.ScalC(y, c)
DoScalCAt ==
    /\ hist = <<>> /\ ty = "Complex"
    /\ Call(<<ComplexScalCAt(heap, z, y, ret), FALSE>>, "ScalC")

\* z.Sinh(y)
DoSinhAt ==
    /\ hist = <<>> /\ ty = "Real"
    /\ Call(<<RealSinhAt(heap, z, y), FALSE>>, "Sinh")

\* z.Cosh(y)
DoCoshAt ==
    /\ hist = <<>> /\ ty = "Real"
    /\ Call(<<RealCoshAt(heap, z, y), FALSE>>, "Cosh")

\* z.Inv(y)
DoInvAt ==
    /\ hist = <<>> /\ ty \in {"Real", "Super", "Complex"}
    /\ Call(InvAt(ty, heap, z, y), "Inv")

\* z.Quo(x, y)
DoQuoAt ==
    /\ hist = <<>> /\ ty \in {"Real", "Super", "Complex"}
    /\ Call(QuoAt(ty, heap, z, x, y), "Quo")

NextAlias == DoMulAt \/ DoScalCAt \/ DoSinhAt \/ DoCoshAt \/ DoInvAt \/ DoQuoAt

SpecAlias == InitAlias /\ [][NextAlias]_vars

(* Copy of the types built on two pointers, and writes in place afterwards *)

CopyVals(t) == AlgVals(t) \cup {Shape(t, v) : v \in VecsSpecial(Dim(t))}

\* y is the object 1 and z the object 2
InitCopy ==
    /\ ty \in PairTypes
    /\ \E a \in CopyVals(ty), b \in AlgVals(ty) : heap = MkHeap(ty, <<a, b>>)
    /\ x = 1
    /\ y = 1
    /\ z = 2
    /\ w = heap
    /\ hist = <<>>
    /\ panicked = FALSE
    /\ ret = FALSE

\* z.Copy(y)
DoCopyAt == hist = <<>> /\ Call(<<CopyAt(ty, heap, z, y), FALSE>>, "Copy")

\* o[k][0] = 9, a write in place to the part k of o, one of y and z, after
\* z.Copy(y); ret is <<o, k>>
DoWritePart ==
    /\ hist = <<"Copy">>
    /\ \E o \in {y, z}, k \in {1, 2} :
           /\ heap' = SetAt(heap, heap[o][k], 1, I(9))
           /\ ret' = <<o, k>>
    /\ w' = heap
    /\ hist' = Append(hist, "Write")
    /\ UNCHANGED <<ty, x, y, z, panicked>>

NextCopy == DoCopyAt \/ DoWritePart

SpecCopy == InitCopy /\ [][NextCopy]_vars

(* sequences of calls on Hamilton and Ultra values; ret is the set of the    *)
(* values made so far and z the receiver of the last call                    *)

OwnTypes == {"Hamilton", "Ultra"}

OwnVals(t) == {Shape(t, BasisN(8, 2)), Shape(t, BasisN(8, 7)), Shape(t, Ramp(8, 1))}

\* the effect of a call on the receiver r that leaves the heap h
CallOn(r, h, op) ==
    /\ Len(hist) < MaxCalls
    /\ heap' = h
    /\ w' = heap
    /\ z' = r
    /\ hist' = Append(hist, op)
    /\ UNCHANGED <<ty, x, y, panicked>>

\* two values made by NewHamilton or NewUltra
InitOwn ==
    /\ ty \in OwnTypes
    /\ \E a \in OwnVals(ty), b \in OwnVals(ty) :
           heap = NewAt(ty, NewAt(ty, <<>>, a), b)
    /\ ret = {1, 4}
    /\ x = 1
    /\ y = 4
    /\ z = 1
    /\ w = heap
    /\ hist = <<>>
    /\ panicked = FALSE

\* NewHamilton(...) and NewUltra(...)
DoNew ==
    \E v \in OwnVals(ty) :
        /\ CallOn(Len(heap) + 1, NewAt(ty, heap, v), "New")
        /\ ret' = ret \cup {Len(heap) + 1}

DoCopyOn ==
    \E r \in ret, a \in ret :
        CallOn(r, CopyAt(ty, heap, r, a), "Copy") /\ ret' = ret

\* z.ScalR(y, a) and z.Scal(y, a); the scalar a is a part of a value
DoScalROn ==
    \E r \in ret, a \in ret, b \in ret, k \in {1, 2} :
        CallOn(r, ScalRAt(ty, heap, r, a, heap[b][k]), "ScalR") /\ ret' = ret

DoScalLOn ==
    /\ ty = "Hamilton"
    /\ \E r \in ret, a \in ret, b \in ret, k \in {1, 2} :
           CallOn(r, ScalLAt(ty, heap, r, heap[b][k], a), "ScalL") /\ ret' = ret

DoDilOn ==
    \E r \in ret, a \in ret :
        CallOn(r, DilAt(ty, heap, r, a, I(MaxNum)), "Dil") /\ ret' = ret

DoNegOn ==
    \E r \in ret, a \in ret :
        CallOn(r, NegAt(ty, heap, r, a), "Neg") /\ ret' = ret

DoConjOn ==
    \E r \in ret, a \in ret :
        CallOn(r, ConjAt(ty, heap, r, a), "Conj") /\ ret' = ret

DoAddOn ==
    \E r \in ret, a \in ret, b \in ret :
        CallOn(r, AddAt(ty, heap, r, a, b), "Add") /\ ret' = ret

DoSubOn ==
    \E r \in ret, a \in ret, b \in ret :
        CallOn(r, SubAt(ty, heap, r, a, b), "Sub") /\ ret' = ret

DoMulOn ==
    \E r \in ret, a \in ret, b \in ret :
        CallOn(r, MulAt(ty, heap, r, a, b), "Mul") /\ ret' = ret

DoCommutatorOn ==
    \E r \in ret, a \in ret, b \in ret :
        CallOn(r, CommutatorAt(ty, heap, r, a, b), "Commutator") /\ ret' = ret

DoAssociatorOn ==
    \E r \in ret, a \in ret, b \in ret, c \in ret :
        CallOn(r, AssociatorAt(ty, heap, r, a, b, c), "Associator") /\ ret' = ret

NextOwn ==
    \/ DoNew \/ DoCopyOn \/ DoScalROn \/ DoScalLOn \/ DoDilOn \/ DoNegOn
    \/ DoConjOn \/ DoAddOn \/ DoSubOn \/ DoMulOn \/ DoCommutatorOn
    \/ DoAssociatorOn

SpecOwn == InitOwn /\ [][NextOwn]_vars

----------------------------------------------------------------------------
(* the properties *)

Last(s) == s[Len(s)]

\* c is not more than delta away from 0 (as notEquals sees it: a NaN is not)
WithinDelta(c) == ~FGt(c, Delta) /\ ~FGt(FNeg(c), Delta)

\* the components of the real part of a value of type t
RealPart(t) == IF t = "Complex" THEN {1, 2} ELSE {1}

\* the identity 1 of type t
Identity(t) ==
    IF t = "Real" THEN <<One, Zero>> ELSE <<One, Zero, Zero, Zero>>

\* C1: for Real, Super and the flat Complex, Inv(y) and Quo(x, y) panic
\* exactly when every component of the real part of y is within delta of 0
\* (y.IsZeroDiv()), whatever x is, and return a result otherwise.
C1_PanicIffZeroDiv ==
    (hist # <<>> /\ Last(hist) \in {"Inv", "Quo"}) =>
        (panicked <=> \A i \in RealPart(ty) : WithinDelta(y[i]))

\* a Quo that panicked on a divisor whose real part is delta/2, not 0
C1_Witness ==
    hist = <<"Quo">> /\ panicked /\ y[1] = Tiny(1, 2) /\ ty = "Complex"

\* C6: for Real, Super and the flat Complex, the result of Inv(y) is a
\* two-sided inverse of y: Mul(y, Inv(y)) and Mul(Inv(y), y) both Equal 1.
C6_InvIsInverse ==
    (hist = <<"Inv">> /\ ~panicked) =>
        /\ Equals(ty, Mul(ty, y, z), Identity(ty))
        /\ Equals(ty, Mul(ty, z, y), Identity(ty))

\* Inv of a Super with all four components nonzero has returned
C6_Witness ==
    /\ hist = <<"Inv">> /\ ~panicked /\ ty = "Super"
    /\ y[1] = I(2) /\ y[2] = One /\ y[3] = I(-1) /\ y[4] = One

\* C7: for Real, Super and the flat Complex, and y not a zero divisor,
\* Quo(Mul(x, y), y) Equals x and Quo(x, y) Equals Mul(x, Inv(y)).
C7_QuoUndoesMul ==
    /\ (hist = <<"Mul", "Quo">> /\ ~panicked) => Equals(ty, z, x)
    /\ (hist = <<"Quo">> /\ ~panicked) =>
           Equals(ty, z, Mul(ty, x, Inv(ty, y)))

\* z.Mul(x, y) then z.Quo(z, y) on a Complex with x and y off the real axis
C7_Witness ==
    /\ hist = <<"Mul", "Quo">> /\ ~panicked /\ ty = "Complex"
    /\ x[2] = One /\ x[4] = One /\ y[2] = I(2) /\ y[3] = One

\* C2 (the claim as stated): for the pair-based Complex, Inv(y) and
\* Quo(x, y) panic exactly when the real part y[0] of y is zero.
C2_PairPanicIffZero ==
    (ty = "PairComplex" /\ hist # <<>> /\ Last(hist) \in {"Inv", "Quo"}) =>
        (panicked <=> y[1] = <<Zero, Zero>>)

\* C3 (the claim as stated): Real.IsZeroDiv(Real{a, b}) is true when a is 0
\* and false when a is not 0, whatever b is.
C3_ZeroDivIffExactZero ==
    (ty = "Real" /\ hist = <<"IsZeroDiv">>) =>
        /\ y[1] = Zero => ret
        /\ y[1] # Zero => ~ret

\* C3 (amended): Real.IsZeroDiv(Real{0, b}) is true for every b, and
\* Real.IsZeroDiv(Real{a, b}) is false for every a with |a| > delta and
\* every b.
C3_ZeroDivTolerance ==
    (ty = "Real" /\ hist = <<"IsZeroDiv">>) =>
        /\ y[1] = Zero => ret
        /\ FGt(FAbs(y[1]), Delta) => ~ret

\* IsZeroDiv has returned false on a Real whose real part is 2 delta
C3_Witness ==
    ty = "Real" /\ hist = <<"IsZeroDiv">> /\ y[1] = Tiny(2, 1) /\ ~ret

\* the components of the real part z[0] of a pair type
RealPartOfPair(t) == IF t = "Hamilton" THEN 1..4 ELSE 1..2

\* C4 (the claim as stated): for Hamilton, Perplex and the pair-based
\* Complex, IsZeroDiv(z) is true exactly when the real part z[0] is the
\* (tolerance-)zero of the base ring: true for 0 and eps, false for 1.
C4_PairZeroDivIffRealZero ==
    (ty \in {"Hamilton", "Perplex", "PairComplex"} /\ hist = <<"IsZeroDiv">>)
        => (ret <=> \A i \in RealPartOfPair(ty) : WithinDelta(Comps(ty, y)[i]))

\* C5 (the claim as stated): for the flat Quaternion, IsZeroDiv(z) is true
\* exactly when Mul(z, z) is the zero Quaternion; it is false for j and k.
C5_ZeroDivIffNilpotent ==
    (ty = "Quaternion" /\ hist = <<"IsZeroDiv">>) =>
        (ret <=> QuaternionMul(y, y) = [i \in 1..8 |-> Zero])

\* C8 (the claim as stated): for the flat Quaternion, whenever Inv(y) does
\* not panic, Mul(y, Inv(y)) Equals the identity.
C8_QuaternionInvIsInverse ==
    (ty = "Quaternion" /\ hist = <<"Inv">> /\ ~panicked) =>
        QuaternionEquals(QuaternionMul(y, z), Basis8(1))

\* C9: for every type, IsInf is true exactly when a component is +Inf or
\* -Inf, IsNaN exactly when no component is infinite and one is NaN; the two
\* are never both true.
C9_InfBeforeNaN ==
    LET c      == Comps(ty, y)
        anyInf == \E i \in 1..Dim(ty) : c[i] \in {PInf, NInf}
        anyNaN == \E i \in 1..Dim(ty) : c[i] = NaN
    IN /\ hist = <<"IsInf">> => (ret <=> anyInf)
       /\ hist = <<"IsNaN">> => (ret <=> (~anyInf /\ anyNaN))
       /\ ~(IsInf(ty, y) /\ IsNaN(ty, y))

\* IsNaN has returned false on an Ultra with a NaN in its real part and an
\* infinity in its dual part
C9_Witness ==
    /\ ty = "Ultra" /\ hist = <<"IsNaN">> /\ ~ret
    /\ y[1][1] = NaN /\ y[2][4] = PInf /\ y[1][2] = One

AllFinite(t, v) == \A i \in 1..Dim(t) : IsFinF(Comps(t, v)[i])

\* C10: for every type and finite x and y, Equals(x, y) is true exactly
\* when |x_i - y_i| <= delta for every component i; Equals(z, z) is true for
\* every z, and Equals(x, y) = Equals(y, x).
C10_EqualsWithinDelta ==
    /\ (hist = <<"Equals">> /\ AllFinite(ty, x) /\ AllFinite(ty, y)) =>
           (ret <=> \A i \in 1..Dim(ty) :
                ~FGt(FAbs(FSub(Comps(ty, x)[i], Comps(ty, y)[i])), Delta))
    /\ Equals(ty, y, y)
    /\ Equals(ty, x, y) <=> Equals(ty, y, x)

\* Equals has returned true on two Hamiltons that differ by exactly delta in
\* the last component, and false on none
C10_Witness ==
    /\ ty = "Hamilton" /\ hist = <<"Equals">> /\ ret
    /\ x[2][4] = Zero /\ y[2][4] = Tiny(1, 1)

\* C11: every conjugation is an involution: after z.Conj(x); z.Conj(z) the
\* receiver z is x again, for Real, the flat Complex and Hamilton, and after
\* z.DConj(x); z.DConj(z) (flat Complex) or z.DualConj(x); z.DualConj(z)
\* (Super) it is x again.
C11_ConjInvolution ==
    (hist = <<"Conj", "Conj">> \/ hist = <<"DualConj", "DualConj">>) => z = x

\* the eps i component of a flat Complex has been conjugated twice
C11_Witness ==
    /\ ty = "Complex" /\ hist = <<"Conj", "Conj">>
    /\ x = <<Zero, One, Zero, I(-1)>> /\ z = x

\* C12: for every type, z.Add(x, y) leaves in z the componentwise sum of x
\* and y, which is also the result of Add(y, x); z.Add(x, y); z.Add(z, w)
\* leaves Add(x, Add(y, w)); and Real{1, 2} + Real{3, 4} is Real{4, 6}.
C12_AddCommAssoc ==
    /\ hist = <<"Add">> =>
          /\ z = Add(ty, y, x)
          /\ \A i \in 1..Dim(ty) :
                Comps(ty, z)[i] = FAdd(Comps(ty, x)[i], Comps(ty, y)[i])
          /\ (ty = "Real" /\ x = <<One, I(2)>> /\ y = <<I(3), I(4)>>) =>
                z = <<I(4), I(6)>>
    /\ hist = <<"Add", "Add">> => z = Add(ty, x, Add(ty, y, w))

\* Real{1, 2} + Real{3, 4} has been computed
C12_Witness ==
    /\ ty = "Real" /\ hist = <<"Add">>
    /\ x = <<One, I(2)>> /\ y = <<I(3), I(4)>> /\ z = <<I(4), I(6)>>

\* the real core of the value Quad returns: the float64 itself, or the real
\* part of the Real
RealCore(t, q) == IF t \in {"Real", "Hamilton", "Ultra"} THEN q ELSE q[1]

\* the components of a value of type t that belong to an imaginary unit of
\* the base ring: i of the flat Complex; i, j, k of Hamilton; none of Real
ImagComps(t) ==
    CASE t = "Real"     -> {}
      [] t = "Complex"  -> {2, 4}
      [] t = "Hamilton" -> {2, 3, 4, 6, 7, 8}

\* C13: for Real, the flat Complex and Hamilton, after z.Conj(x); z.Mul(x, z)
\* the components of z on the imaginary units are 0 and its first component
\* is not negative, and x.Quad() returns that first component (as the real
\* part of the Real it returns, for Complex).
C13_MulConjIsQuad ==
    (ty \in {"Real", "Complex", "Hamilton"} /\ Len(hist) >= 2
        /\ hist[1] = "Conj" /\ hist[2] = "Mul") =>
        /\ \A i \in ImagComps(ty) : Comps(ty, z)[i] = Zero
        /\ FGe(Comps(ty, z)[1], Zero)
        /\ hist = <<"Conj", "Mul", "Quad">> =>
              ~FNe(RealCore(ty, ret), Comps(ty, z)[1])

\* the quadrance of the Hamilton i + eps j has been computed both ways
C13_Witness ==
    /\ ty = "Hamilton" /\ hist = <<"Conj", "Mul", "Quad">>
    /\ x = <<<<Zero, One, Zero, Zero>>, <<Zero, Zero, One, Zero>>>>
    /\ z = <<<<One, Zero, Zero, Zero>>, <<Zero, Zero, Zero, Zero>>>>
    /\ ret = One

C15_ConjNegConjDual ==
    (ty = "Hamilton" /\ hist = <<"Conj">>) =>
        /\ z[1] = <<x[1][1], FNeg(x[1][2]), FNeg(x[1][3]), FNeg(x[1][4])>>
        /\ z[2] = <<FNeg(x[2][1]), x[2][2], x[2][3], x[2][4]>>

\* C15 as amended: for a Hamilton x = (a, b), z.Conj(x) leaves (conj(a), -b)
\* in z: the dual part is negated, not conjugated.
C15_ConjNegDual ==
    (ty = "Hamilton" /\ hist = <<"Conj">>) =>
        /\ z[1] = <<x[1][1], FNeg(x[1][2]), FNeg(x[1][3]), FNeg(x[1][4])>>
        /\ z[2] = <<FNeg(x[2][1]), FNeg(x[2][2]), FNeg(x[2][3]),
                    FNeg(x[2][4])>>

\* the conjugate of i + eps i has been computed: it is -i - eps i
C15_Witness ==
    /\ ty = "Hamilton" /\ hist = <<"Conj">>
    /\ x = <<<<Zero, One, Zero, Zero>>, <<Zero, One, Zero, Zero>>>>
    /\ z = <<<<Zero, I(-1), Zero, Zero>>, <<Zero, I(-1), Zero, Zero>>>>

\* the components of u and v, values of type t, are equal numbers
SameVal(t, u, v) ==
    \A i \in 1..Dim(t) : ~FNe(Comps(t, u)[i], Comps(t, v)[i])

\* the Hamilton product by its table: the product of the units a and b of
\* <<1, i, j, k>> is HSgn[a][b] times the unit HIdx[a][b]
HIdx == <<<<1, 2, 3, 4>>, <<2, 1, 4, 3>>, <<3, 4, 1, 2>>, <<4, 3, 2, 1>>>>

HSgn == <<<<1, 1, 1, 1>>, <<1, -1, 1, -1>>, <<1, -1, -1, 1>>, <<1, 1, -1, -1>>>>

HTerm(a, b, i, c) ==
    FMul(I(HSgn[i][HIdx[i][c]]), FMul(a[i], b[HIdx[i][c]]))

HProd(a, b) ==
    [c \in 1..4 |->
        FAdd(FAdd(FAdd(HTerm(a, b, 1, c), HTerm(a, b, 2, c)),
                  HTerm(a, b, 3, c)), HTerm(a, b, 4, c))]

HSum(a, b) == [c \in 1..4 |-> FAdd(a[c], b[c])]

HBar(a) == [c \in 1..4 |-> IF c = 1 THEN a[c] ELSE FNeg(a[c])]

DocProduct(a, b) ==
    LET qa == ((a - 1) % 4) + 1
        qb == ((b - 1) % 4) + 1
        c  == HIdx[qa][qb] + (IF a > 4 \/ b > 4 THEN 4 ELSE 0)
    IN Shape("Hamilton",
             [n \in 1..8 |->
                 IF (a > 4 /\ b > 4) \/ n # c THEN Zero
                 ELSE I(HSgn[qa][qb])])

\* C17: the products of the basis elements i, j, k, eps, eps i, eps j, eps k
\* of Hamilton are those of the comment of Mul.
C17_BasisProducts ==
    \A a \in 2..8, b \in 2..8 :
        (ty = "Hamilton" /\ hist = <<"Mul">>
            /\ x = Shape("Hamilton", BasisN(8, a))
            /\ y = Shape("Hamilton", BasisN(8, b))) =>
            z = DocProduct(a, b)

\* C18: for a Hamilton y and a quaternion a, z.ScalR(y, a) leaves
\* Mul(y, Hamilton{a, 0}) in z and z.ScalL(a, y) leaves Mul(Hamilton{a, 0}, y).
C18_ScalIsMul ==
    /\ (ty = "Hamilton" /\ hist = <<"ScalR">>) =>
           SameVal(ty, z, HamiltonMul(y, w))
    /\ (ty = "Hamilton" /\ hist = <<"ScalL">>) =>
           SameVal(ty, z, HamiltonMul(w, y))

\* C19: for a flat Quaternion y and a quaternion h, z.ScalH(y, h) leaves
\* Mul(y, Quaternion{h0, h1, h2, h3, 0, 0, 0, 0}) in z; for a flat Complex y
\* and a complex c, z.ScalC(y, c) leaves Mul(y, Complex{real(c), imag(c), 0, 0}).
C19_ScalHIsMul ==
    /\ (ty = "Quaternion" /\ hist = <<"ScalH">>) =>
           SameVal(ty, z, QuaternionMul(y, w))
    /\ (ty = "Complex" /\ hist = <<"ScalC">>) =>
           SameVal(ty, z, ComplexMul(y, w))

\* C20: for Real, the flat Complex, Super and the flat Quaternion,
\* z.Mul(w, x); z.Mul(z, y) leaves Mul(w, Mul(x, y)) in z, and
\* z.Mul(x, y); z.Mul(w, z) leaves Mul(Mul(w, x), y).
C20_MulAssociative ==
    /\ hist = <<"MulWX", "MulZY">> =>
           SameVal(ty, z, Mul(ty, w, Mul(ty, x, y)))
    /\ hist = <<"MulXY", "MulWZ">> =>
           SameVal(ty, z, Mul(ty, Mul(ty, w, x), y))

\* the product (i j) k of flat Quaternions has been computed: it is -1
C20_Witness ==
    /\ ty = "Quaternion" /\ hist = <<"MulWX", "MulZY">>
    /\ w = BasisN(8, 2) /\ x = BasisN(8, 3) /\ y = BasisN(8, 4)
    /\ z = [i \in 1..8 |-> IF i = 1 THEN I(-1) ELSE Zero]

\* the dual number 1 and the dual unit eps of Real and of the flat Complex
UnitOne(t) == IF t = "Real" THEN <<One, Zero>> ELSE <<One, Zero, Zero, Zero>>

UnitEps(t) == IF t = "Real" THEN <<Zero, One>> ELSE <<Zero, Zero, One, Zero>>

\* (p0, p1) * (q0, q1) = (p0 q0, p0 q1 + p1 q0), over float64 for Real and
\* over complex128 for the flat Complex
DualForm(t, u, v) ==
    IF t = "Real"
    THEN <<FMul(u[1], v[1]), FAdd(FMul(u[1], v[2]), FMul(u[2], v[1]))>>
    ELSE LET p0 == <<u[1], u[2]>>
             p1 == <<u[3], u[4]>>
             q0 == <<v[1], v[2]>>
             q1 == <<v[3], v[4]>>
         IN CMul(p0, q0) \o CAdd(CMul(p0, q1), CMul(p1, q0))

\* C21: for Real and the flat Complex, z.Mul(x, y) leaves in z the dual form
\* (p0 q0, p0 q1 + p1 q0), which is also Mul(y, x); Mul(1, y) is y and
\* Mul(eps, eps) is 0.
C21_MulCommutativeDual ==
    (ty \in {"Real", "Complex"} /\ hist = <<"MulXY">>) =>
        /\ SameVal(ty, z, DualForm(ty, x, y))
        /\ SameVal(ty, z, Mul(ty, y, x))
        /\ (x = UnitOne(ty) => z = y)
        /\ (x = UnitEps(ty) /\ y = UnitEps(ty)) =>
               z = [i \in 1..Dim(ty) |-> Zero]

\* eps * eps of the flat Complex has been computed: it is 0
C21_Witness ==
    /\ ty = "Complex" /\ hist = <<"MulXY">>
    /\ x = UnitEps(ty) /\ y = UnitEps(ty) /\ z = <<Zero, Zero, Zero, Zero>>

\* the digits of the magnitude of a component
Magnitude(v) ==
    CASE v = NaN -> "NaN"
      [] IsInfF(v) -> "Inf"
      [] IsFinF(v) /\ v[2] = 1 -> Digits(Abs(v[1]))
      [] IsFinF(v) /\ v[2] = 2 -> Digits(Abs(v[1]) \div 2) \o ".5"

\* a component with an explicit sign
Signed(v) == (IF v = NInf \/ v[1] < 0 THEN "-" ELSE "+") \o Magnitude(v)

\* the first component: a sign only when negative or positive infinity
Leading(v) ==
    (IF v = NInf \/ v[1] < 0 THEN "-" ELSE IF v = PInf THEN "+" ELSE "")
        \o Magnitude(v)

\* C22: String returns "(", the first component, then every further
\* component with an explicit sign followed by its basis symbol, then ")":
\* Real{4, 6} gives "(4+6ε)", Real{1, -1} "(1-1ε)", RealInf(+1, -1)
\* "(+Inf-Infε)", and Hamilton uses i, j, k, ε, εi, εj, εk in this order.
C22_StringFormat ==
    hist = <<"String">> =>
        /\ ty = "Real" =>
              /\ ret = "(" \o Leading(x[1]) \o Signed(x[2]) \o "ε)"
              /\ (x = <<I(4), I(6)>> => ret = "(4+6ε)")
              /\ (x = <<One, I(-1)>> => ret = "(1-1ε)")
              /\ (x = <<PInf, NInf>> => ret = "(+Inf-Infε)")
        /\ ty = "Hamilton" =>
              ret = "(" \o Leading(x[1][1]) \o Signed(x[1][2]) \o "i"
                        \o Signed(x[1][3]) \o "j" \o Signed(x[1][4]) \o "k"
                        \o Signed(x[2][1]) \o "ε" \o Signed(x[2][2]) \o "εi"
                        \o Signed(x[2][3]) \o "εj" \o Signed(x[2][4]) \o "εk"
                        \o ")"

\* the string of RealInf(+1, -1) has been built
C22_Witness ==
    /\ ty = "Real" /\ hist = <<"String">>
    /\ x = <<PInf, NInf>> /\ ret = "(+Inf-Infε)"

HZero == Shape("Hamilton", [i \in 1..8 |-> Zero])

HUnit(i) == Shape("Hamilton", BasisN(8, i))

\* C27: Hamilton.Mul is noncommutative and nonassociative: the associator of
\* eps, i, j is 2 eps k and the commutator of i and j is 2 k, both nonzero,
\* while the commutator of any x with itself is 0
C27_NonCommNonAssoc ==
    /\ hist = <<"CommutatorXX">> => z = HZero
    /\ (hist = <<"Associator">> /\ w = HUnit(5) /\ x = HUnit(2) /\ y = HUnit(3))
         => (z # HZero
             /\ z = Shape("Hamilton", [i \in 1..8 |-> IF i = 8 THEN I(2) ELSE Zero]))
    /\ (hist = <<"Commutator">> /\ x = HUnit(2) /\ y = HUnit(3))
         => (z # HZero
             /\ z = Shape("Hamilton", [i \in 1..8 |-> IF i = 4 THEN I(2) ELSE Zero]))

C27_Witness ==
    /\ hist = <<"Associator">>
    /\ w = HUnit(5) /\ x = HUnit(2) /\ y = HUnit(3)
    /\ z # HZero

\* C28: the paired Hamilton.Mul of part_001 and the pair-based Complex.Mul of
\* part_007, flattened, give the components of the flat Quaternion.Mul and of
\* the flat Complex.Mul of the same operands
C28_FlatEqualsPaired ==
    hist = <<"Mul", "MulPaired">> => Comps(Paired(ty), ret) = Comps(ty, z)

C28_Witness ==
    /\ hist = <<"Mul", "MulPaired">>
    /\ ty = "Quaternion"
    /\ x = BasisN(8, 2) /\ y = BasisN(8, 7)
    /\ ret = <<<<Zero, Zero, Zero, Zero>>, <<Zero, Zero, Zero, One>>>>

\* the value Mul leaves in a fully initialised receiver
PerplexRevProduct(u, v) == PerplexRevMul(<<<<Zero, Zero>>, <<Zero, Zero>>>>, u, v)[1]

\* C26: in the Perplex of super.go, z.Commutator(x, y) on a fully initialised
\* receiver returns normally and leaves Mul(x, y) - Mul(y, x) in z
C26_CommutatorReturns ==
    (hist # <<>> /\ Last(hist) = "Commutator" /\ z[1] # Nil /\ z[2] # Nil)
      => (/\ ~panicked
          /\ z = <<SplitSub(PerplexRevProduct(x, y)[1], PerplexRevProduct(y, x)[1]),
                   SplitSub(PerplexRevProduct(x, y)[2], PerplexRevProduct(y, x)[2])>>)

\* C24: z.Mul(x, y) of Real, flat Complex, Super and Hamilton, with z the
\* same object as x, as y or as both, leaves in z the product of the values
\* x and y had before the call
C24_MulAliasSafe ==
    hist = <<"Mul">> => Val(ty, heap, z) = Mul(ty, Val(ty, w, x), Val(ty, w, y))

C24_Witness ==
    /\ hist = <<"Mul">>
    /\ ty = "Hamilton"
    /\ z = x /\ z = y
    /\ Val(ty, w, z) = Shape(ty, BasisN(8, 2))
    /\ Val(ty, heap, z) = Shape(ty, [i \in 1..8 |-> IF i = 1 THEN I(-1) ELSE Zero])

\* C25: z.ScalC(z, c) of a flat Complex, z.Sinh(z) and z.Cosh(z) of a Real
\* leave in z the value the same call stores in another receiver (the
\* object 3) given the value z had before the call
C25_ReceiverAsOperandSafe ==
    /\ (hist = <<"ScalC">> /\ z = y)
         => heap[z] = ComplexScalCAt(w, 3, z, ret)[3]
    /\ (hist = <<"Sinh">> /\ z = y) => heap[z] = RealSinhAt(w, 3, z)[3]
    /\ (hist = <<"Cosh">> /\ z = y) => heap[z] = RealCoshAt(w, 3, z)[3]

\* C29: when Inv or Quo of Real, Super or flat Complex panics, every object
\* holds the value it held before the call
C29_FailedDivisionWritesNothing ==
    (hist # <<>> /\ Last(hist) \in {"Inv", "Quo"} /\ panicked) => heap = w

C29_Witness ==
    /\ hist = <<"Quo">>
    /\ panicked
    /\ ty = "Complex"
    /\ z = x /\ x # y
    /\ heap[x] # heap[y]
    /\ heap[y] = <<Zero, Zero, One, Zero>>

\* the parts of the object o of the heap h
Parts(h, o) == {h[o][1], h[o][2]}

\* C23: after z.Copy(y) of a Hamilton, an Ultra or a Perplex, z Equals y and
\* has the components of y, the two parts of z are new objects and none is a
\* part of y; a later write in place to a part of z leaves y as it was, and
\* a write to a part of y leaves z as it was
C23_CopyIsDeep ==
    /\ hist = <<"Copy">> =>
         /\ Equals(ty, Val(ty, heap, z), Val(ty, heap, y))
         /\ Val(ty, heap, z) = Val(ty, w, y)
         /\ Val(ty, heap, y) = Val(ty, w, y)
         /\ Parts(heap, z) \cap Parts(heap, y) = {}
         /\ \A k \in Parts(heap, z) : k > Len(w)
         /\ heap[z][1] # heap[z][2]
    /\ hist = <<"Copy", "Write">> =>
         LET other == IF ret[1] = z THEN y ELSE z
         IN /\ Val(ty, heap, other) = Val(ty, w, other)
            /\ Val(ty, heap, ret[1])[ret[2]][1] = I(9)

C23_Witness ==
    /\ hist = <<"Copy", "Write">>
    /\ ty = "Ultra"
    /\ ret = <<z, 1>>
    /\ Val(ty, heap, y) = Shape(ty, BasisN(8, 1))
    /\ Val(ty, heap, z) = Shape(ty, [i \in 1..8 |-> IF i = 1 THEN I(9) ELSE Zero])

\* C30: after any sequence of calls on Hamilton or Ultra values no two
\* values share a part, the two parts of a value are two objects, and the
\* last call left every value but its receiver as it was
C30_NoSharedParts ==
    /\ \A a \in ret, b \in ret : a # b => Parts(heap, a) \cap Parts(heap, b) = {}
    /\ \A a \in ret : heap[a][1] # heap[a][2]
    /\ hist # <<>> =>
         \A a \in ret : (a # z /\ a <= Len(w)) => Val(ty, heap, a) = Val(ty, w, a)

C30_Witness ==
    /\ hist = <<"Conj", "Mul">>
    /\ ty = "Ultra"
    /\ z = 1
    /\ Val(ty, w, 4) = Shape(ty, BasisN(8, 2))
    /\ Val(ty, heap, 4) = Shape(ty, BasisN(8, 2))
    /\ Val(ty, heap, 1) # Val(ty, w, 1)

====
